---- MODULE Spec2Model ----
(***************************************************************************)
(* State-machine model of the memory agent: the short-term buffer          *)
(* (src/src/memory/short_term_memory.py), the long-term store              *)
(* (src/src/memory/memory_store.py), the metrics logger                    *)
(* (src/src/utils/metrics_logger.py) and the orchestrator's chat turn      *)
(* (src/src/agents/memory_agent.py).                                       *)
(*                                                                         *)
(* Conventions.  A Python exception is an outcome: every operation leaves  *)
(* its outcome in `ret` as [op, kind, val] with kind "return" or "raise".  *)
(* External collaborators (vector index, text splitter, agent loop, the    *)
(* file system under the metric logs) are fallible per call: their outcome *)
(* is an input of the action.  datetime.now() is an input too: a reading   *)
(* not earlier than the previous one.                                      *)
(***************************************************************************)
EXTENDS Integers, Sequences, FiniteSets, TLC

VARIABLES
    max_messages,   \* ShortTermMemory.max_messages
    messages,       \* ShortTermMemory.messages
    session_start,  \* ShortTermMemory.session_start
    appended,       \* history: the messages appended since creation / last clear
    held,           \* the list a caller got from get_messages / get_recent_messages
    logger,         \* the MetricsLogger instance
    store_logger,   \* MemoryStore.metrics_logger: None or the logger attached
    has_score,      \* hasattr(vectorstore, 'similarity_search_with_score')
    chunks,         \* the content of the vector index, in insertion order
    next_uuid,      \* the next id uuid.uuid4() generates
    now,            \* the last reading of datetime.now() / time.time()
    calls,          \* history: number of operations performed so far
    ext,            \* history: outcomes of the external calls of the last operation
    ret,            \* outcome of the last operation
    turn,           \* MemoryAgent.chat: idle, or the locals of the call in progress;
                    \* tools (history): the tool calls the agent loops made so far
    crew            \* the MemoryAgent instances of a process that makes several:
                    \* each one's MetricsLogger, ShortTermMemory and chat call

stmVars == <<max_messages, messages, session_start, appended, held>>
metricsVars == <<logger>>
storeVars == <<store_logger, has_score, chunks, next_uuid>>
agentVars == <<turn, crew>>

vars == <<max_messages, messages, session_start, appended, held, logger, store_logger,
          has_score, chunks, next_uuid, now, calls, ext, ret, turn, crew>>

(***************************************************************************)
(* Bounds of the model.                                                    *)
(***************************************************************************)
MaxCap == 3
MaxCallsSTM == 5
MaxClock == 1
MaxCallsMetrics == 2
MaxCallsStore == 2
MaxFragments == 2

MaxCallsViews == 4
MaxRecent == 2
MaxCallsSplit == 1
MaxCrewCalls == 5
MaxCrewToolCalls == 2
MaxChars == 12
MaxTurns == 2
MaxToolCalls == 1

Contents == {"a", "b"}
Idle == [pc |-> "idle", tools |-> 0, trace |-> <<>>]

\* No MemoryAgent made yet: loggers, buffers and turns are keyed by instance,
\* log_dirs gives the directory each instance's logger writes to and disk the
\* files of each directory used so far.
NoCrew == [loggers |-> <<>>, buffers |-> <<>>, turns |-> <<>>, tools |-> 0,
           log_dirs |-> <<>>, disk |-> <<>>]
Roles == {"human", "ai"}

Min(a, b) == IF a < b THEN a ELSE b
Max(a, b) == IF a > b THEN a ELSE b

\* Python's s[-n:] for n > 0: the last n elements, or all of s when it is shorter.
LastN(s, n) == SubSeq(s, Max(1, Len(s) - n + 1), Len(s))

\* Python's s[-n:] for every integer n: s[-0:] is s[0:], the whole list, and a
\* negative n is a start index counted from the front.
PySliceFromMinus(s, n) ==
    IF n > 0 THEN LastN(s, n)
    ELSE SubSeq(s, Min(Len(s), -n) + 1, Len(s))

NoRet == [op |-> "none", kind |-> "return", val |-> <<>>]
Returned(o, v) == [op |-> o, kind |-> "return", val |-> v]
Raised(o, e) == [op |-> o, kind |-> "raise", val |-> e]

\* A reading of datetime.now(): the wall clock of the machine, naive local
\* time, so a reading may equal the previous one or precede it (a clock
\* adjustment, the switch back from daylight saving time).
ClockReadings == 0..MaxClock

\* datetime.isoformat(): the reading as a string, never the empty string
isoformat(t) == ToString(t)

None == "None"
EmptyDict == <<>>

\* d[k] = v on a Python dict (a function with a finite domain of keys).
Put(d, k, v) == [x \in (DOMAIN d) \cup {k} |-> IF x = k THEN v ELSE d[x]]

\* d.get(k, dflt)
Get(d, k, dflt) == IF k \in DOMAIN d THEN d[k] ELSE dflt

\* An Optional[dict] argument left at None.  The code only tests such an
\* argument for truthiness, and None and {} are both falsy.
NoDict == EmptyDict

\* The truth value of an Optional[str]: None and "" are falsy.
Truthy(v) == v # None /\ v # ""

\* text[:n]: the text itself when it has at most n characters, else its
\* prefix of n characters (named after the text and the cut); chars is
\* len(text).
first_chars(text, chars, n) ==
    IF chars <= n THEN text ELSE text \o "[:" \o ToString(n) \o "]"

\* Python's `metadata or {}`
OrEmpty(md) == IF DOMAIN md = {} THEN EmptyDict ELSE md

RECURSIVE SumSeq(_)
SumSeq(s) == IF s = <<>> THEN 0 ELSE Head(s) + SumSeq(Tail(s))

\* Python's true division a / b of two numbers, b # 0, kept exact as the
\* fraction <<a, b>>.
Frac(a, b) == <<a, b>>

(***************************************************************************)
(* ShortTermMemory                                                         *)
(***************************************************************************)
HumanMessage(c) == [role |-> "human", content |-> c]
AIMessage(c) == [role |-> "ai", content |-> c]

TrimKeepsOldest(msgs, cap) ==
    IF Len(msgs) > cap THEN SubSeq(msgs, 1, cap) ELSE msgs

TrimOffByOne(msgs, cap) ==
    IF Len(msgs) > cap + 1 THEN PySliceFromMinus(msgs, cap + 1) ELSE msgs

\* ShortTermMemory._trim_messages
trim_messages(msgs, cap) ==
    IF Len(msgs) > cap THEN PySliceFromMinus(msgs, cap) ELSE msgs

\* The buffer after ShortTermMemory.add_user_message / add_ai_message
add_message(msgs, m, cap) == trim_messages(Append(msgs, m), cap)

\* A list handed to a caller: its items, and whether it is the very list
\* object the buffer holds (alias) or a separate one.
NoList == [op |-> "none", items |-> <<>>, alias |-> FALSE]

GetMessagesNoCopy(msgs) == [op |-> "get_messages", items |-> msgs, alias |-> TRUE]

\* ShortTermMemory.get_messages: self.messages.copy(), a new list
get_messages(msgs) == [op |-> "get_messages", items |-> msgs, alias |-> FALSE]

\* ShortTermMemory.get_recent_messages: the slice messages[-n:] is a new
\* list, the else branch hands out self.messages itself
get_recent_messages(msgs, n) ==
    IF Len(msgs) > n
    THEN [op |-> "get_recent_messages", items |-> PySliceFromMinus(msgs, n), alias |-> FALSE]
    ELSE [op |-> "get_recent_messages", items |-> msgs, alias |-> TRUE]

\* The caller's list after the buffer appended m: messages.append(m) is in
\* place, so an aliased list grows too; a trim rebinds self.messages to a new
\* list and ends the aliasing.
held_after_append(h, msgs, m, cap) ==
    IF h.alias
    THEN [h EXCEPT !.items = Append(msgs, m), !.alias = (Len(msgs) + 1 <= cap)]
    ELSE h

\* The caller's list after clear(): self.messages is rebound to a new list
held_after_clear(h) == [h EXCEPT !.alias = FALSE]

\* What a caller can do to a list it holds: append an element, remove the
\* last one, reverse the order.
CallerEdits == {"append", "pop", "reverse"}

mutated(items, edit) ==
    IF edit = "append" THEN Append(items, HumanMessage("x"))
    ELSE IF edit = "pop" THEN SubSeq(items, 1, Len(items) - 1)
    ELSE [i \in 1..Len(items) |-> items[Len(items) + 1 - i]]

(***************************************************************************)
(* MetricsLogger.  A logger is a record: the four in-memory event lists,   *)
(* aggregated_metrics (a dict of four dicts) and the four log files, each  *)
(* a sequence of written lines.  Floats are kept exact: quality and        *)
(* confidence scores are integers in twentieths (20 is 1.0), latencies and *)
(* costs are integers in their own units, quotients are fractions.         *)
(***************************************************************************)

\* A log directory that holds no file yet: the four event logs and
\* aggregated_metrics.json (a sequence of at most one written snapshot).
EmptyLogDir ==
    [ files |-> [ prompts |-> <<>>, rag |-> <<>>, agents |-> <<>>, system |-> <<>> ],
      snapshot |-> <<>> ]

\* MetricsLogger.__init__: empty event lists and the zeroed accumulator.  The
\* constructor only creates log_dir when it is missing; the files an earlier
\* logger wrote there are kept and appended to.
NewMetricsLogger(t, log_dir) ==
    [ prompt_metrics |-> <<>>,
      rag_metrics |-> <<>>,
      agent_metrics |-> <<>>,
      system_metrics |-> <<>>,
      aggregated_metrics |->
        [ prompts |-> [ total_requests |-> 0,
                        total_refusals |-> 0,
                        total_response_length |-> 0,
                        format_compliance_count |-> 0,
                        quality_scores |-> <<>> ],
          rag |-> [ total_retrievals |-> 0,
                    total_chunks_retrieved |-> 0,
                    total_retrieval_latency |-> 0,
                    confidence_scores |-> <<>>,
                    source_diversity |-> <<>> ],
          agents |-> [ total_tasks |-> 0,
                       completed_tasks |-> 0,
                       total_steps |-> 0,
                       tool_calls |-> EmptyDict,
                       tool_successes |-> EmptyDict,
                       errors |-> EmptyDict,
                       total_cost |-> 0 ],
          system |-> [ total_requests |-> 0,
                       successful_requests |-> 0,
                       total_latency |-> 0,
                       total_cost |-> 0,
                       errors |-> 0,
                       start_time |-> t,
                       uptime_seconds |-> 0 ] ],
      files |-> log_dir.files,
      snapshot |-> log_dir.snapshot ]

\* MetricsLogger._save_metric: one line appended to the category's log file.
\* io is the outcome of open()/write(): when it fails nothing is appended and
\* the OSError leaves the calling log_* method.
save_metric(L, category, metric, io) ==
    IF io THEN [L EXCEPT !.files[category] = Append(@, metric)] ELSE L

\* dict d with count added to d[k], the key created at 0 when missing
\* (the loops of log_agent_metrics).
AddCount(d, k, count) == Put(d, k, Get(d, k, 0) + count)

RECURSIVE AddCounts(_, _, _)
AddCounts(d, src, keys) ==
    IF keys = {} THEN d
    ELSE LET k == CHOOSE x \in keys : TRUE
         IN AddCounts(AddCount(d, k, src[k]), src, keys \ {k})

\* MetricsLogger.log_prompt_metrics
log_prompt_metrics(L, response_quality_score, format_compliant, refused, response_length, metadata, t, io) ==
    LET metric == [ timestamp |-> t,
                    response_quality_score |-> response_quality_score,
                    format_compliant |-> format_compliant,
                    refused |-> refused,
                    response_length |-> response_length,
                    metadata |-> OrEmpty(metadata) ]
        a == L.aggregated_metrics.prompts
        a2 == [a EXCEPT
                 !.total_requests = @ + 1,
                 !.total_refusals = IF refused THEN @ + 1 ELSE @,
                 !.format_compliance_count = IF format_compliant THEN @ + 1 ELSE @,
                 !.total_response_length = @ + response_length,
                 !.quality_scores = Append(@, response_quality_score)]
        L2 == [L EXCEPT !.prompt_metrics = Append(@, metric),
                        !.aggregated_metrics.prompts = a2]
    IN save_metric(L2, "prompts", metric, io)

\* MetricsLogger.log_rag_metrics
log_rag_metrics(L, retrieval_confidence_scores, num_chunks_retrieved, source_diversity, retrieval_latency, metadata, t, io) ==
    LET metric == [ timestamp |-> t,
                    retrieval_confidence_scores |-> retrieval_confidence_scores,
                    num_chunks_retrieved |-> num_chunks_retrieved,
                    source_diversity |-> source_diversity,
                    retrieval_latency |-> retrieval_latency,
                    metadata |-> OrEmpty(metadata) ]
        a == L.aggregated_metrics.rag
        a2 == [a EXCEPT
                 !.total_retrievals = @ + 1,
                 !.total_chunks_retrieved = @ + num_chunks_retrieved,
                 !.total_retrieval_latency = @ + retrieval_latency,
                 !.confidence_scores = @ \o retrieval_confidence_scores,
                 !.source_diversity = Append(@, source_diversity)]
        L2 == [L EXCEPT !.rag_metrics = Append(@, metric),
                        !.aggregated_metrics.rag = a2]
    IN save_metric(L2, "rag", metric, io)

\* MetricsLogger.log_agent_metrics
log_agent_metrics(L, task_completed, steps_to_completion, tool_calls, tool_successes, error_type, cost_per_task, metadata, t, io) ==
    LET metric == [ timestamp |-> t,
                    task_completed |-> task_completed,
                    steps_to_completion |-> steps_to_completion,
                    tool_calls |-> tool_calls,
                    tool_successes |-> tool_successes,
                    error_type |-> error_type,
                    cost_per_task |-> cost_per_task,
                    metadata |-> OrEmpty(metadata) ]
        a == L.aggregated_metrics.agents
        a2 == [a EXCEPT
                 !.total_tasks = @ + 1,
                 !.completed_tasks = IF task_completed THEN @ + 1 ELSE @,
                 !.total_steps = @ + steps_to_completion,
                 !.total_cost = @ + cost_per_task,
                 !.tool_calls = AddCounts(@, tool_calls, DOMAIN tool_calls),
                 !.tool_successes = AddCounts(@, tool_successes, DOMAIN tool_successes),
                 !.errors = IF Truthy(error_type) THEN AddCount(@, error_type, 1) ELSE @]
        L2 == [L EXCEPT !.agent_metrics = Append(@, metric),
                        !.aggregated_metrics.agents = a2]
    IN save_metric(L2, "agents", metric, io)

\* MetricsLogger.log_system_metrics; t is the reading taken for the timestamp
\* and t2 the reading taken afterwards for the uptime.
log_system_metrics(L, task_success, user_satisfaction, latency, cost_per_request, error, error_message, metadata, t, t2, io) ==
    LET metric == [ timestamp |-> t,
                    task_success |-> task_success,
                    user_satisfaction |-> user_satisfaction,
                    latency |-> latency,
                    cost_per_request |-> cost_per_request,
                    error |-> error,
                    error_message |-> error_message,
                    metadata |-> OrEmpty(metadata) ]
        a == L.aggregated_metrics.system
        a2 == [a EXCEPT
                 !.total_requests = @ + 1,
                 !.successful_requests = IF task_success THEN @ + 1 ELSE @,
                 !.errors = IF error THEN @ + 1 ELSE @,
                 !.total_latency = @ + latency,
                 !.total_cost = @ + cost_per_request,
                 !.uptime_seconds = t2 - a.start_time]
        L2 == [L EXCEPT !.system_metrics = Append(@, metric),
                        !.aggregated_metrics.system = a2]
    IN save_metric(L2, "system", metric, io)

\* get_aggregated_metrics, the "prompts" dict after the writes of the derived keys
derive_prompts(p) ==
    IF p.total_requests > 0
    THEN LET p1 == Put(p, "average_response_length",
                       Frac(p.total_response_length, p.total_requests))
             p2 == Put(p1, "refusal_rate", Frac(p.total_refusals, p.total_requests))
             p3 == Put(p2, "format_compliance_rate",
                       Frac(p.format_compliance_count, p.total_requests))
         IN IF p.quality_scores # <<>>
            THEN Put(p3, "average_quality_score",
                     Frac(SumSeq(p.quality_scores), Len(p.quality_scores)))
            ELSE p3
    ELSE p

\* get_aggregated_metrics, the "rag" dict after the writes of the derived keys
derive_rag(r) ==
    IF r.total_retrievals > 0
    THEN LET r1 == Put(r, "average_chunks_retrieved",
                       Frac(r.total_chunks_retrieved, r.total_retrievals))
             r2 == Put(r1, "average_retrieval_latency",
                       Frac(r.total_retrieval_latency, r.total_retrievals))
             r3 == IF r.confidence_scores # <<>>
                   THEN Put(r2, "average_confidence_score",
                            Frac(SumSeq(r.confidence_scores), Len(r.confidence_scores)))
                   ELSE r2
         IN IF r.source_diversity # <<>>
            THEN Put(r3, "average_source_diversity",
                     Frac(SumSeq(r.source_diversity), Len(r.source_diversity)))
            ELSE r3
    ELSE r

ToolRatesPerEvent(tool_calls, tool_successes) ==
    [tool_name \in DOMAIN tool_calls |->
        IF tool_calls[tool_name] > 0
        THEN Frac(Get(tool_successes, tool_name, 0), tool_calls[tool_name] + 1)
        ELSE 0]

\* successes / calls if calls > 0 else 0, for every tool of tool_calls
tool_success_rates(tool_calls, tool_successes) ==
    [tool_name \in DOMAIN tool_calls |->
        IF tool_calls[tool_name] > 0
        THEN Frac(Get(tool_successes, tool_name, 0), tool_calls[tool_name])
        ELSE 0]

\* get_aggregated_metrics, the "agents" dict after the writes of the derived keys
derive_agents(a) ==
    IF a.total_tasks > 0
    THEN LET a1 == Put(a, "task_completion_rate", Frac(a.completed_tasks, a.total_tasks))
             a2 == Put(a1, "average_steps_to_completion", Frac(a.total_steps, a.total_tasks))
             a3 == Put(a2, "average_cost_per_task", Frac(a.total_cost, a.total_tasks))
         IN Put(a3, "tool_success_rates", tool_success_rates(a.tool_calls, a.tool_successes))
    ELSE a

\* get_aggregated_metrics, the "system" dict after the writes of the derived keys
derive_system(y) ==
    IF y.total_requests > 0
    THEN LET y1 == Put(y, "task_success_rate", Frac(y.successful_requests, y.total_requests))
             y2 == Put(y1, "average_latency", Frac(y.total_latency, y.total_requests))
             y3 == Put(y2, "average_cost_per_request", Frac(y.total_cost, y.total_requests))
         IN Put(y3, "error_rate", Frac(y.errors, y.total_requests))
    ELSE y

\* MetricsLogger.get_aggregated_metrics: the returned dict.
get_aggregated_metrics(L) ==
    [ prompts |-> derive_prompts(L.aggregated_metrics.prompts),
      rag |-> derive_rag(L.aggregated_metrics.rag),
      agents |-> derive_agents(L.aggregated_metrics.agents),
      system |-> derive_system(L.aggregated_metrics.system) ]

\* The logger after get_aggregated_metrics.  dict.copy() is shallow: the four
\* inner dicts of the returned dict are the accumulator's own inner dicts, so
\* every derived key written to the result is written to the accumulator.
after_get_aggregated_metrics(L) ==
    [L EXCEPT !.aggregated_metrics = get_aggregated_metrics(L)]

\* MetricsLogger.save_aggregated_metrics: get_aggregated_metrics, then the
\* returned dict written over aggregated_metrics.json.  io is the outcome of
\* open(): when it fails the file is as it was and the OSError leaves the
\* method, after get_aggregated_metrics has run.
save_aggregated_metrics(L, io) ==
    LET L2 == after_get_aggregated_metrics(L)
    IN IF io THEN [L2 EXCEPT !.snapshot = <<get_aggregated_metrics(L)>>] ELSE L2

\* MetricsLogger.print_metrics_summary: the streams whose section lists
\* figures, those with a positive event count in the accumulator.
printed_sections(L) ==
    { s \in {"prompts", "rag", "agents", "system"} :
        LET a == L.aggregated_metrics[s]
        IN IF s = "rag" THEN a.total_retrievals > 0
           ELSE IF s = "agents" THEN a.total_tasks > 0
           ELSE a.total_requests > 0 }

\* The derived keys get_aggregated_metrics can write, per stream.
DerivedKeys ==
    [ prompts |-> {"average_response_length", "refusal_rate",
                   "format_compliance_rate", "average_quality_score"},
      rag |-> {"average_chunks_retrieved", "average_retrieval_latency",
               "average_confidence_score", "average_source_diversity"},
      agents |-> {"task_completion_rate", "average_steps_to_completion",
                  "average_cost_per_task", "tool_success_rates"},
      system |-> {"task_success_rate", "average_latency",
                  "average_cost_per_request", "error_rate"} ]

\* The key of each stream's event count in the accumulator.
CountKey ==
    [ prompts |-> "total_requests", rag |-> "total_retrievals",
      agents |-> "total_tasks", system |-> "total_requests" ]

Streams == {"prompts", "rag", "agents", "system"}

(***************************************************************************)
(* MemoryStore.  The vector index is external: a search returns a list of  *)
(* (document, distance) hits or raises, add/delete/get return or raise.    *)
(* Distances are integers in tenths (10 is 1.0), confidences in twentieths *)
(* (20 is 1.0), so that 1 - distance/2 is exact.                           *)
(***************************************************************************)

\* len(query) of the queries searched for.
QueryChars == [q |-> 1, q101 |-> 101]

ConfidenceUnclamped(distance) == 20 - distance

\* max(0.0, min(1.0, 1.0 - (distance / 2.0))), distance in tenths, result in
\* twentieths
confidence_of(distance) == Max(0, Min(20, 20 - distance))

\* The relevance_score given to a hit of the plain similarity_search: 1.0
FallbackRelevance == 10

\* The confidence logged for a hit of the plain similarity_search: 0.5
FallbackConfidence == 10

\* doc.metadata.get("category") is truthy: present and not the empty string
HasCategory(md) == "category" \in DOMAIN md /\ md["category"] # ""

\* the set `sources` after the loop over the results
sources_of(hits) ==
    { hits[i].doc.metadata["category"] :
        i \in { j \in 1..Len(hits) : HasCategory(hits[j].doc.metadata) } }

\* the list `memories` of the similarity_search_with_score branch
memories_with_score(hits) ==
    [i \in 1..Len(hits) |->
        [ content |-> hits[i].doc.page_content,
          metadata |-> hits[i].doc.metadata,
          relevance_score |-> hits[i].score ]]

\* the list `memories` of the similarity_search fallback branch
memories_fallback(hits) ==
    [i \in 1..Len(hits) |->
        [ content |-> hits[i].doc.page_content,
          metadata |-> hits[i].doc.metadata,
          relevance_score |-> FallbackRelevance ]]

\* the confidence_scores handed to log_rag_metrics by the
\* similarity_search_with_score branch: one per hit, [0.0] when there is none
scores_with_score(hits) ==
    IF Len(hits) = 0 THEN <<0>>
    ELSE [i \in 1..Len(hits) |-> confidence_of(hits[i].score)]

\* the confidence_scores handed to log_rag_metrics by the fallback branch
scores_fallback(hits) ==
    IF Len(hits) = 0 THEN <<0>>
    ELSE [i \in 1..Len(hits) |-> FallbackConfidence]

\* The except branch of retrieve_memories_with_scores, entered with exception
\* e: a zero-result event is logged when a logger is attached, then [] is
\* returned.  io is the outcome of that event's append to the log file; its
\* OSError is raised inside the handler and leaves the method.
retrieve_except(L, metrics_logger, query, k, e, latency, t, io) ==
    IF metrics_logger # None
    THEN [ logger |-> log_rag_metrics(L, <<>>, 0, 0, latency,
                          [error |-> e, error_type |-> e,
                           query |-> first_chars(query, QueryChars[query], 100), k |-> k],
                          t, io),
           ret |-> IF io THEN Returned("retrieve", <<>>)
                         ELSE Raised("retrieve", "OSError") ]
    ELSE [ logger |-> L, ret |-> Returned("retrieve", <<>>) ]

\* The try block of retrieve_memories_with_scores once the index has returned
\* `hits`.  It yields the logger after the event and, in `raised`, the
\* exception that reaches the except branch (None when the block returns).
retrieve_try(L, metrics_logger, with_score, query, k, hits, latency, t, io) ==
    LET memories == IF with_score THEN memories_with_score(hits)
                                  ELSE memories_fallback(hits)
        scores == IF with_score THEN scores_with_score(hits)
                                ELSE scores_fallback(hits)
        method == IF with_score THEN "similarity_search_with_score"
                                ELSE "similarity_search"
    IN IF metrics_logger # None
       THEN [ logger |-> log_rag_metrics(L, scores, Len(memories),
                             Cardinality(sources_of(hits)), latency,
                             [query |-> first_chars(query, QueryChars[query], 100), k |-> k,
                              found_results |-> Len(memories) > 0, method |-> method],
                             t, io),
              raised |-> IF io THEN None ELSE "OSError",
              memories |-> memories ]
       ELSE [ logger |-> L, raised |-> None, memories |-> memories ]

\* MemoryStore.retrieve_memories_with_scores.  search is the index outcome:
\* [ok, hits], ok false when the index call raises.  latency is time.time() - start_time, t the
\* clock reading of the logged event; io1 is the outcome of the log append in
\* the try block and io2 of the one in the except branch.
retrieve_memories_with_scores(L, metrics_logger, with_score, query, k, search, latency, t, io1, io2) ==
    IF ~search.ok
    THEN retrieve_except(L, metrics_logger, query, k, "IndexError", latency, t, io2)
    ELSE LET r == retrieve_try(L, metrics_logger, with_score, query, k, search.hits, latency, t, io1)
         IN IF r.raised = None
            THEN [ logger |-> r.logger, ret |-> Returned("retrieve", r.memories) ]
            ELSE retrieve_except(r.logger, metrics_logger, query, k, r.raised, latency, t, io2)

\* MemoryStore.retrieve_memories: the plain similarity_search, every hit with
\* relevance_score 1.0; [] when the index raises.  Nothing is logged.
retrieve_memories(search) ==
    IF search.ok THEN memories_fallback(search.hits) ELSE <<>>

\* search_memory's answer when retrieve gave no result: the fixed message
NothingFound == [tag |-> "nothing_found", entries |-> <<>>]

\* score_text of one result: empty when relevance_score is 1.0 (10 tenths),
\* else the percentage of 1 - relevance_score (formatted with .2%)
score_text(relevance_score) ==
    IF relevance_score # 10 THEN <<(10 - relevance_score) * 10>> ELSE <<>>

\* the "saved at" line of one result: written when metadata.get('timestamp')
\* is truthy, that is when the key is there and its value is not empty
timestamp_line(metadata) ==
    IF Truthy(Get(metadata, "timestamp", None)) THEN <<metadata["timestamp"]>> ELSE <<>>

\* The string search_memory builds from the memories of retrieve: the header
\* and one numbered entry per memory, in order.
render_memories(memories) ==
    IF Len(memories) = 0
    THEN NothingFound
    ELSE [ tag |-> "found",
           entries |-> [i \in 1..Len(memories) |->
               [ index |-> i,
                 score_text |-> score_text(memories[i].relevance_score),
                 content |-> memories[i].content,
                 timestamp |-> timestamp_line(memories[i].metadata) ]] ]

\* tools.memory_tools.search_memory on the global store: retrieve with
\* k = limit, then the rendering; an exception of retrieve leaves the tool.
search_memory(L, metrics_logger, with_score, query, limit, search, latency, t, io1, io2) ==
    LET r == retrieve_memories_with_scores(L, metrics_logger, with_score, query,
                 limit, search, latency, t, io1, io2)
    IN [ logger |-> r.logger,
         memories |-> IF r.ret.kind = "return" THEN r.ret.val ELSE <<>>,
         ret |-> IF r.ret.kind = "return"
                 THEN Returned("search_memory", render_memories(r.ret.val))
                 ELSE Raised("search_memory", r.ret.val) ]

StampedDefaultsWin(metadata, t) ==
    LET default_metadata == [timestamp |-> isoformat(t), type |-> "memory"]
    IN [x \in (DOMAIN default_metadata) \cup (DOMAIN metadata) |->
           IF x \in DOMAIN default_metadata THEN default_metadata[x] ELSE metadata[x]]

\* default_metadata after default_metadata.update(metadata)
stamped_metadata(metadata, t) ==
    LET default_metadata == [timestamp |-> isoformat(t), type |-> "memory"]
    IN IF DOMAIN metadata = {} THEN default_metadata
       ELSE [x \in (DOMAIN default_metadata) \cup (DOMAIN metadata) |->
                IF x \in DOMAIN metadata THEN metadata[x] ELSE default_metadata[x]]

\* settings.MEMORY_CHUNK_SIZE and settings.MEMORY_CHUNK_OVERLAP: the
\* configured chunk size and overlap, 1000 and 200 characters by default
MEMORY_CHUNK_SIZE == 1000
MEMORY_CHUNK_OVERLAP == 200

(***************************************************************************)
(* The text splitter of the store: RecursiveCharacterTextSplitter with     *)
(* chunk size C, overlap O, the default separators "\n\n", "\n", " ", "",  *)
(* separators kept at the start of a split and whitespace stripped from    *)
(* every fragment.  Texts are made of letters and spaces, so the first two *)
(* separators never apply.  A text is given by its length and the          *)
(* positions (from 0) that hold a space; a fragment is the window          *)
(* [from, to) of the text it is cut from.                                  *)
(***************************************************************************)
Text(len, spaces) == [len |-> len, spaces |-> spaces]

\* A split starts at position b: with the separator " " every space starts a
\* split (the separator is kept at the start of what follows it), with the
\* separator "" every character is a split.
StartsSplit(text, separator, b) == separator = "" \/ b \in text.spaces

\* _join_docs on the splits that make up [f, e): the joined text with the
\* whitespace at both ends stripped, and no document when nothing is left.
join_docs(text, f, e) ==
    IF \A p \in f..(e - 1) : p \in text.spaces
    THEN <<>>
    ELSE << [ from |-> CHOOSE p \in f..(e - 1) :
                          p \notin text.spaces /\ \A q \in f..(p - 1) : q \in text.spaces,
              to |-> 1 + CHOOSE p \in f..(e - 1) :
                          p \notin text.spaces /\ \A q \in (p + 1)..(e - 1) : q \in text.spaces ] >>

\* _merge_splits over the splits of [s, t), each shorter than C.  [f, e) is
\* current_doc and the next split starts at e and ends at n.  When the next
\* split does not fit, current_doc is emitted and splits are dropped from
\* its front while it is longer than O or still leaves no room; the splits
\* that fit are then appended.  The last current_doc is emitted at the end.
RECURSIVE merge_splits(_, _, _, _, _, _, _, _)
merge_splits(text, separator, s, t, f, e, C, O) ==
    IF e = t
    THEN join_docs(text, f, e)
    ELSE LET n == CHOOSE b \in (e + 1)..t :
                      /\ b = t \/ StartsSplit(text, separator, b)
                      /\ \A c \in (e + 1)..(b - 1) : ~StartsSplit(text, separator, c)
         IN IF n - f > C
            THEN IF e > f
                 THEN LET kept == CHOOSE b \in Max(f, e - O)..e :
                                     /\ b = s \/ StartsSplit(text, separator, b)
                                     /\ n - b <= C \/ b = e
                                     /\ \A c \in Max(f, e - O)..(b - 1) :
                                           ~ /\ c = s \/ StartsSplit(text, separator, c)
                                             /\ n - c <= C
                      IN join_docs(text, f, e)
                            \o merge_splits(text, separator, s, t, kept, n, C, O)
                 ELSE merge_splits(text, separator, s, t, f, n, C, O)
            ELSE LET last == CHOOSE b \in n..Min(f + C, t) :
                                /\ b = t \/ StartsSplit(text, separator, b)
                                /\ \A c \in (b + 1)..Min(f + C, t) :
                                      ~(c = t \/ StartsSplit(text, separator, c))
                 IN merge_splits(text, separator, s, t, f, last, C, O)

\* The loop of _split_text over the splits made at the separator " ", from
\* the split that starts at p on; the splits of [g, p) are the _good_splits
\* held so far.  A split shorter than C is good; a longer one is split
\* again at the separator "", after the good ones before it are merged.
RECURSIVE split_at_spaces(_, _, _, _, _)
split_at_spaces(text, g, p, C, O) ==
    LET merged == IF g < p THEN merge_splits(text, " ", g, p, g, g, C, O) ELSE <<>>
    IN IF p = text.len
       THEN merged
       ELSE LET q == CHOOSE b \in (p + 1)..text.len :
                         /\ b = text.len \/ b \in text.spaces
                         /\ \A c \in (p + 1)..(b - 1) : c \notin text.spaces
            IN IF q - p < C
               THEN split_at_spaces(text, g, q, C, O)
               ELSE merged \o merge_splits(text, "", p, q, p, p, C, O)
                           \o split_at_spaces(text, q, q, C, O)

\* split_text: the first separator found in the text is used, "" when the
\* text holds no space.
split_text(text, C, O) ==
    IF text.spaces = {}
    THEN merge_splits(text, "", 0, text.len, 0, 0, C, O)
    ELSE split_at_spaces(text, 0, 0, C, O)

\* text_splitter.split_documents on one document: the page_content of the
\* fragments, in the order split_text gives them.
split_documents(text, C, O) ==
    LET windows == split_text(text, C, O)
    IN [i \in 1..Len(windows) |->
           [text |-> text, part |-> i, from |-> windows[i].from, to |-> windows[i].to]]

\* The page_content of n fragments of a named content whose cut points are
\* left open
fragments_of(content, n) == [i \in 1..n |-> [text |-> content, part |-> i]]

\* The chunks add_documents stores for the fragments of one save: each
\* fragment with the document's metadata and the id generated for it.
new_chunks(fragments, md, first_id) ==
    [i \in 1..Len(fragments) |->
        [ id |-> first_id + i - 1,
          page_content |-> fragments[i],
          metadata |-> md ]]

\* MemoryStore.save_memory: what it returns or raises.  fail names the step
\* that raises ("none" when no step does), n is the number of fragments the
\* splitter produces.  Splitting (line 223) and id generation (line 238) are
\* before the try block, add_documents (embedding and upsert) is inside it.
\* uuid4 is called once per fragment: with no fragment it is not called and
\* cannot fail.
save_memory_outcome(n, fail) ==
    CASE fail = "split" -> Raised("save_memory", "SplitError")
      [] fail = "uuid" /\ n > 0 -> Raised("save_memory", "OSError")
      [] fail = "upsert" -> Returned("save_memory", [tag |-> "error", cause |-> "UpsertError"])
      [] OTHER -> Returned("save_memory", [tag |-> "saved", fragments |-> n])

\* MemoryStore.save_memory: the index content after the call.
save_memory_chunks(store, fragments, metadata, fail, first_id, t) ==
    IF fail = "none" \/ (fail = "uuid" /\ fragments = <<>>)
    THEN store \o new_chunks(fragments, stamped_metadata(metadata, t), first_id)
    ELSE store

\* The index content after vectorstore.delete(ids=ids)
without_ids(store, ids) == SelectSeq(store, LAMBDA c : c.id \notin ids)

\* MemoryStore.delete_memory: True, or False when the index raises.
delete_memory(ok) == ok

GetAllIgnoresLimit(store, limit, ok) ==
    IF ok
    THEN LET n == Len(store)
         IN [ ids |-> [i \in 1..n |-> store[i].id],
              documents |-> [i \in 1..n |-> store[i].page_content],
              metadatas |-> [i \in 1..n |-> store[i].metadata] ]
    ELSE [ ids |-> <<>>, documents |-> <<>>, metadatas |-> <<>> ]

\* The value of get_all_memories: the first `limit` entries, or the empty
\* collections when the index raises.
get_all_memories(store, limit, ok) ==
    IF ok
    THEN LET n == Min(limit, Len(store))
         IN [ ids |-> [i \in 1..n |-> store[i].id],
              documents |-> [i \in 1..n |-> store[i].page_content],
              metadatas |-> [i \in 1..n |-> store[i].metadata] ]
    ELSE [ ids |-> <<>>, documents |-> <<>>, metadatas |-> <<>> ]

\* get_all_memories(limit: int = 100)
DefaultListLimit == 100

\* The set of ids clear_all_memories hands to delete_memory.
clear_all_ids(store, list_ok) ==
    LET all_ids == get_all_memories(store, DefaultListLimit, list_ok).ids
    IN { all_ids[i] : i \in 1..Len(all_ids) }

\* MemoryStore.clear_all_memories: its value.  get_all_memories and
\* delete_memory swallow every exception and the value of delete_memory is
\* not read, so the try block always reaches `return True`.
clear_all_memories(store, list_ok, delete_ok) == TRUE

\* MemoryStore.clear_all_memories: the index content after the call.
clear_all_chunks(store, list_ok, delete_ok) ==
    LET ids == clear_all_ids(store, list_ok)
    IN IF ids # {} /\ delete_ok THEN without_ids(store, ids) ELSE store

(***************************************************************************)
(* MemoryAgent.  Texts are named strings; what the code reads of a text    *)
(* (its length, the substrings it contains) is tabulated in TextInfo.      *)
(* The agent loop is external: its outcome is a result or an exception.    *)
(***************************************************************************)

\* len: len(text); marker: the text contains one of the structure markers or
\* a newline; ne_mogu, izvinite, sorry: text.lower() contains that refusal
\* keyword; blank: text.strip() is empty.  "blocks" is a response content
\* that is no str but a list of two content blocks: only its len is read.
TextInfo ==
    [ a |-> [len |-> 1, marker |-> FALSE, ne_mogu |-> FALSE, izvinite |-> FALSE,
             sorry |-> FALSE, blank |-> FALSE],
      b |-> [len |-> 1, marker |-> FALSE, ne_mogu |-> FALSE, izvinite |-> FALSE,
             sorry |-> FALSE, blank |-> FALSE],
      answer |-> [len |-> 60, marker |-> TRUE, ne_mogu |-> FALSE, izvinite |-> FALSE,
                  sorry |-> FALSE, blank |-> FALSE],
      refusal |-> [len |-> 20, marker |-> FALSE, ne_mogu |-> FALSE, izvinite |-> FALSE,
                   sorry |-> TRUE, blank |-> FALSE],
      apology |-> [len |-> 24, marker |-> FALSE, ne_mogu |-> FALSE, izvinite |-> TRUE,
                   sorry |-> FALSE, blank |-> FALSE],
      x |-> [len |-> 1, marker |-> FALSE, ne_mogu |-> FALSE, izvinite |-> FALSE,
             sorry |-> FALSE, blank |-> FALSE],
      blocks |-> [len |-> 2, marker |-> FALSE, ne_mogu |-> FALSE, izvinite |-> FALSE,
                  sorry |-> FALSE, blank |-> FALSE],
      m101 |-> [len |-> 101, marker |-> FALSE, ne_mogu |-> FALSE, izvinite |-> FALSE,
                sorry |-> FALSE, blank |-> FALSE] ]

\* content[:100] + "..." if len(content) > 100 else content
summary_content(content) ==
    IF TextInfo[content].len > 100
    THEN first_chars(content, TextInfo[content].len, 100) \o "..."
    ELSE content

\* ShortTermMemory.get_conversation_summary: the fixed text of an empty
\* buffer, else the header with the number of messages and one numbered line
\* for each of the last 5 messages (the role words are rendered as "user"
\* and "agent").
get_conversation_summary(msgs) ==
    IF msgs = <<>>
    THEN [tag |-> "no_history", count |-> 0, lines |-> <<>>]
    ELSE LET last == PySliceFromMinus(msgs, 5)
         IN [ tag |-> "history",
              count |-> Len(msgs),
              lines |-> [i \in 1..Len(last) |->
                  [ index |-> i,
                    role |-> IF last[i].role = "human" THEN "user" ELSE "agent",
                    content |-> summary_content(last[i].content) ]] ]

\* MemoryAgent._analyze_response_quality, in twentieths (10 is 0.5)
analyze_response_quality(response) ==
    LET i == TextInfo[response]
        s1 == 10 + (IF 50 <= i.len /\ i.len <= 500 THEN 4 ELSE 0)
        s2 == s1 + (IF i.marker THEN 2 ELSE 0)
    IN IF i.ne_mogu \/ i.izvinite \/ i.sorry THEN 4 ELSE Min(s2, 20)

\* MemoryAgent._check_format_compliance
check_format_compliance(response) ==
    ~TextInfo[response].blank /\ TextInfo[response].len < 5000

\* refused = "не могу" in ai_response.lower() or "sorry" in ai_response.lower()
refused_flag(response) == TextInfo[response].ne_mogu \/ TextInfo[response].sorry

RECURSIVE CountNames(_)
\* tool_calls[name] = tool_calls.get(name, 0) + 1 over the tool calls found
CountNames(names) ==
    IF names = <<>> THEN EmptyDict
    ELSE LET d == CountNames(Tail(names))
         IN Put(d, Head(names), Get(d, Head(names), 0) + 1)

\* MemoryAgent._extract_tool_calls: the tool_calls dict (tool_successes is the
\* same dict: every call found is counted as a success).  Only the messages
\* of a dict result are inspected.
extract_tool_calls(result) ==
    IF result.shape = "messages" THEN CountNames(result.tool_calls) ELSE EmptyDict

\* The exception that leaves MemoryAgent._extract_tool_calls, None when it
\* returns: `for tool_call in msg.tool_calls` raises TypeError on a
\* tool_calls attribute that cannot be iterated (None, a number), and
\* tool_call.get raises AttributeError on an element that is no dict.  Only
\* the messages of a dict result are inspected.
extract_tool_calls_raises(result) ==
    IF result.shape # "messages" THEN None
    ELSE IF result.tool_calls_attr = "not_iterable" THEN "TypeError"
    ELSE IF result.tool_calls_attr = "list_of_non_dicts" THEN "AttributeError"
    ELSE None

\* estimated_cost = latency * 0.001, in thousandths of the latency unit
estimated_cost(latency) == latency

\* The except branch of MemoryAgent.chat, entered with exception e: an Agent
\* failure event and a System failure event are logged, then e is re-raised.
\* An OSError of a failed log append is raised inside the handler and
\* replaces e.  broken is the set of log files whose append fails.
chat_except(L, steps, e, latency, message, t, broken) ==
    LET ioA == "agents" \notin broken
        ioS == "system" \notin broken
        L1 == log_agent_metrics(L, FALSE, steps, EmptyDict, EmptyDict, e, 0,
                                [error |-> e], t, ioA)
        L2 == log_system_metrics(L1, FALSE, None, latency, 0, TRUE, e,
                                 [message |-> first_chars(message, TextInfo[message].len, 100)],
                                 t, t, ioS)
    IN IF ~ioA THEN [logger |-> L1, ret |-> Raised("chat", "OSError"),
                     trace |-> <<"except", "log_agent_metrics">>]
       ELSE [logger |-> L2, ret |-> Raised("chat", IF ioS THEN e ELSE "OSError"),
             trace |-> <<"except", "log_agent_metrics", "log_system_metrics">>]

\* The calls chat made, in order, when the calls `done` of the try block are
\* followed by the except branch r.
after(done, r) == [r EXCEPT !.trace = done \o @]

\* MemoryAgent.chat from the return of agent.invoke to its end: the response
\* is decoded and appended, then the Prompt, Agent and System events are
\* logged.  Every exception on the way enters the except branch.
chat_after_invoke(L, history, message, result, latency, t, broken) ==
    LET ai_response == result.text
        steps == Len(history)
        cost == estimated_cost(latency)
        ioP == "prompts" \notin broken
        ioA == "agents" \notin broken
        ioS == "system" \notin broken
        L1 == log_prompt_metrics(L, analyze_response_quality(ai_response),
                  check_format_compliance(ai_response), refused_flag(ai_response),
                  TextInfo[ai_response].len, [message_length |-> TextInfo[message].len],
                  t, ioP)
        tc == extract_tool_calls(result)
        L2 == log_agent_metrics(L1, TRUE, steps, tc, tc, None, cost,
                                [message |-> first_chars(message, TextInfo[message].len, 100)],
                                t, ioA)
        L3 == log_system_metrics(L2, TRUE, None, latency, cost, FALSE, None,
                                 [message_length |-> TextInfo[message].len], t, t, ioS)
        p0 == <<"add_ai_message">>
        p1 == <<"add_ai_message", "log_prompt_metrics">>
        p2 == <<"add_ai_message", "log_prompt_metrics", "log_agent_metrics">>
        p3 == <<"add_ai_message", "log_prompt_metrics", "log_agent_metrics",
                "log_system_metrics">>
    IN IF ~result.content_ok
       THEN after(p0, chat_except(L, steps, "AttributeError", latency, message, t, broken))
       ELSE IF ~ioP
       THEN after(p1, chat_except(L1, steps, "OSError", latency, message, t, broken))
       ELSE IF extract_tool_calls_raises(result) # None
       THEN after(p1, chat_except(L1, steps, extract_tool_calls_raises(result),
                                  latency, message, t, broken))
       ELSE IF ~ioA
       THEN after(p2, chat_except(L2, steps, "OSError", latency, message, t, broken))
       ELSE IF ~ioS
       THEN after(p3, chat_except(L3, steps, "OSError", latency, message, t, broken))
       ELSE [logger |-> L3, ret |-> Returned("chat", ai_response), trace |-> p3]

\* MemoryAgent.chat from the outcome of agent.invoke on: when the agent loop
\* raised, the except branch runs with steps still 0.
chat_finish(L, history, message, outcome, latency, t, broken) ==
    IF outcome.ok
    THEN chat_after_invoke(L, history, message, outcome, latency, t, broken)
    ELSE chat_except(L, 0, outcome.error, latency, message, t, broken)

AddUserMessage(c) ==
    /\ calls < MaxCallsSTM
    /\ messages' = add_message(messages, HumanMessage(c), max_messages)
    /\ appended' = Append(appended, HumanMessage(c))
    /\ calls' = calls + 1
    /\ ret' = Returned("add_user_message", <<>>)
    /\ ext' = EmptyDict
    /\ held' = held_after_append(held, messages, HumanMessage(c), max_messages)
    /\ UNCHANGED <<max_messages, session_start, now, metricsVars, storeVars, agentVars>>

AddAiMessage(c) ==
    /\ calls < MaxCallsSTM
    /\ messages' = add_message(messages, AIMessage(c), max_messages)
    /\ appended' = Append(appended, AIMessage(c))
    /\ calls' = calls + 1
    /\ ret' = Returned("add_ai_message", <<>>)
    /\ ext' = EmptyDict
    /\ held' = held_after_append(held, messages, AIMessage(c), max_messages)
    /\ UNCHANGED <<max_messages, session_start, now, metricsVars, storeVars, agentVars>>

ClearKeepsStart(t) ==
    /\ calls < MaxCallsSTM
    /\ messages' = <<>>
    /\ now' = t
    /\ appended' = <<>>
    /\ calls' = calls + 1
    /\ ret' = Returned("clear", <<>>)
    /\ ext' = [cleared |-> Len(messages), previous_start |-> session_start]
    /\ held' = held_after_clear(held)
    /\ UNCHANGED <<max_messages, session_start, metricsVars, storeVars, agentVars>>

\* ShortTermMemory.clear; t is the reading of datetime.now().  ext keeps what
\* the call replaced.
Clear(t) ==
    /\ calls < MaxCallsSTM
    /\ messages' = <<>>
    /\ session_start' = t
    /\ now' = t
    /\ appended' = <<>>
    /\ calls' = calls + 1
    /\ ret' = Returned("clear", <<>>)
    /\ ext' = [cleared |-> Len(messages), previous_start |-> session_start]
    /\ held' = held_after_clear(held)
    /\ UNCHANGED <<max_messages, metricsVars, storeVars, agentVars>>

GetMessages ==
    /\ calls < MaxCallsSTM
    /\ held' = get_messages(messages)
    /\ ret' = Returned("get_messages", held'.items)
    /\ ext' = EmptyDict
    /\ calls' = calls + 1
    /\ UNCHANGED <<max_messages, messages, session_start, appended, now,
                   metricsVars, storeVars, agentVars>>

GetRecentMessages(n) ==
    /\ calls < MaxCallsSTM
    /\ held' = get_recent_messages(messages, n)
    /\ ret' = Returned("get_recent_messages", held'.items)
    /\ ext' = [n |-> n]
    /\ calls' = calls + 1
    /\ UNCHANGED <<max_messages, messages, session_start, appended, now,
                   metricsVars, storeVars, agentVars>>

\* The caller edits the list it was handed.  The edit is in place: when that
\* list is the buffer's own, the buffer changes with it.
CallerMutates(edit) ==
    /\ calls < MaxCallsSTM
    /\ held.op # "none"
    /\ edit = "pop" => held.items # <<>>
    /\ held' = [held EXCEPT !.items = mutated(held.items, edit)]
    /\ messages' = IF held.alias THEN mutated(held.items, edit) ELSE messages
    /\ ret' = Returned("caller_edit", <<>>)
    /\ ext' = [edit |-> edit, buffer |-> messages, list |-> held.items]
    /\ calls' = calls + 1
    /\ UNCHANGED <<max_messages, session_start, appended, now,
                   metricsVars, storeVars, agentVars>>

\* ShortTermMemory.get_conversation_summary (MemoryAgent.get_conversation_history
\* returns its result)
GetConversationSummary ==
    /\ calls < MaxCallsSTM
    /\ ret' = Returned("get_conversation_summary", get_conversation_summary(messages))
    /\ ext' = EmptyDict
    /\ calls' = calls + 1
    /\ UNCHANGED <<stmVars, now, metricsVars, storeVars, agentVars>>

\* ShortTermMemory.__len__
Length ==
    /\ calls < MaxCallsSTM
    /\ ret' = Returned("__len__", Len(messages))
    /\ ext' = EmptyDict
    /\ calls' = calls + 1
    /\ UNCHANGED <<stmVars, now, metricsVars, storeVars, agentVars>>

InitSTM ==
    /\ max_messages \in 1..MaxCap
    /\ messages = <<>>
    /\ session_start = 0
    /\ appended = <<>>
    /\ held = NoList
    /\ logger = NewMetricsLogger(0, EmptyLogDir)
    /\ store_logger = None
    /\ has_score = TRUE
    /\ chunks = <<>>
    /\ next_uuid = 1
    /\ ext = EmptyDict
    /\ now = 0
    /\ calls = 0
    /\ ret = NoRet
    /\ turn = Idle
    /\ crew = NoCrew

NextSTM ==
    \/ \E c \in Contents : AddUserMessage(c)
    \/ \E c \in Contents : AddAiMessage(c)
    \/ \E t \in ClockReadings : Clear(t)

SpecSTM == InitSTM /\ [][NextSTM]_vars

\* The buffer with its readers: appends and clears interleaved with
\* get_messages, get_recent_messages and the caller's edits of the list it
\* was handed.
NextViews ==
    \/ calls < MaxCallsViews /\ AddUserMessage("a")
    \/ calls < MaxCallsViews /\ AddAiMessage("b")
    \/ calls < MaxCallsViews /\ Clear(now)
    \/ calls < MaxCallsViews /\ GetMessages
    \/ \E n \in 0..MaxRecent : calls < MaxCallsViews /\ GetRecentMessages(n)
    \/ \E edit \in CallerEdits : calls < MaxCallsViews /\ CallerMutates(edit)
    \/ calls < MaxCallsViews /\ GetConversationSummary
    \/ calls < MaxCallsViews /\ Length

SpecViews == InitSTM /\ [][NextViews]_vars

(***************************************************************************)
(* The metrics logger on its own: any sequence of log_* calls and          *)
(* get_aggregated_metrics calls on one MetricsLogger.                      *)
(***************************************************************************)
PromptInputs ==
    { [score |-> 16, compliant |-> TRUE, refused |-> FALSE, length |-> 100],
      [score |-> 4, compliant |-> TRUE, refused |-> TRUE, length |-> 200],
      [score |-> 10, compliant |-> FALSE, refused |-> FALSE, length |-> 300] }

RagInputs ==
    { [scores |-> <<20, 10>>, chunks |-> 2, diversity |-> 1, latency |-> 1],
      [scores |-> <<0>>, chunks |-> 0, diversity |-> 0, latency |-> 1],
      [scores |-> <<>>, chunks |-> 0, diversity |-> 0, latency |-> 0] }

AgentInputs ==
    { [completed |-> TRUE, steps |-> 1,
       tool_calls |-> [search_memory |-> 2], tool_successes |-> [search_memory |-> 1],
       error_type |-> None, cost |-> 1],
      [completed |-> TRUE, steps |-> 2,
       tool_calls |-> [search_memory |-> 3, save_to_memory |-> 0],
       tool_successes |-> [search_memory |-> 2],
       error_type |-> None, cost |-> 1],
      [completed |-> FALSE, steps |-> 0,
       tool_calls |-> EmptyDict, tool_successes |-> EmptyDict,
       error_type |-> "RuntimeError", cost |-> 0],
      [completed |-> FALSE, steps |-> 0,
       tool_calls |-> EmptyDict, tool_successes |-> EmptyDict,
       error_type |-> "", cost |-> 0] }

SystemInputs ==
    { [success |-> TRUE, latency |-> 1, cost |-> 1, error |-> FALSE, message |-> None],
      [success |-> FALSE, latency |-> 1, cost |-> 0, error |-> TRUE, message |-> "boom"] }

\* The outcome of a log_* call: it returns None, or the OSError of the failed
\* append leaves it.
LogOutcome(op, io) == IF io THEN Returned(op, None) ELSE Raised(op, "OSError")

LogPrompt(e, t, io) ==
    /\ calls < MaxCallsMetrics
    /\ logger' = log_prompt_metrics(logger, e.score, e.compliant, e.refused,
                                    e.length, NoDict, t, io)
    /\ ret' = LogOutcome("log_prompt_metrics", io)
    /\ now' = t
    /\ calls' = calls + 1
    /\ ext' = [io |-> io]
    /\ UNCHANGED <<stmVars, storeVars, agentVars>>

LogRag(e, t, io) ==
    /\ calls < MaxCallsMetrics
    /\ logger' = log_rag_metrics(logger, e.scores, e.chunks, e.diversity,
                                 e.latency, NoDict, t, io)
    /\ ret' = LogOutcome("log_rag_metrics", io)
    /\ now' = t
    /\ calls' = calls + 1
    /\ ext' = [io |-> io]
    /\ UNCHANGED <<stmVars, storeVars, agentVars>>

LogAgent(e, t, io) ==
    /\ calls < MaxCallsMetrics
    /\ logger' = log_agent_metrics(logger, e.completed, e.steps, e.tool_calls,
                                   e.tool_successes, e.error_type, e.cost, NoDict, t, io)
    /\ ret' = LogOutcome("log_agent_metrics", io)
    /\ now' = t
    /\ calls' = calls + 1
    /\ ext' = [io |-> io]
    /\ UNCHANGED <<stmVars, storeVars, agentVars>>

LogSystem(e, t, t2, io) ==
    /\ calls < MaxCallsMetrics
    /\ logger' = log_system_metrics(logger, e.success, None, e.latency, e.cost,
                                    e.error, e.message, NoDict, t, t2, io)
    /\ ret' = LogOutcome("log_system_metrics", io)
    /\ now' = t2
    /\ calls' = calls + 1
    /\ ext' = [io |-> io]
    /\ UNCHANGED <<stmVars, storeVars, agentVars>>

\* A snapshot may follow the last log call.
GetAggregated ==
    /\ calls <= MaxCallsMetrics
    /\ ret' = Returned("get_aggregated_metrics", get_aggregated_metrics(logger))
    /\ logger' = after_get_aggregated_metrics(logger)
    /\ calls' = calls + 1
    /\ ext' = EmptyDict
    /\ UNCHANGED <<stmVars, storeVars, now, agentVars>>

\* MetricsLogger.save_aggregated_metrics
SaveAggregated(io) ==
    /\ calls <= MaxCallsMetrics
    /\ logger' = save_aggregated_metrics(logger, io)
    /\ ret' = LogOutcome("save_aggregated_metrics", io)
    /\ calls' = calls + 1
    /\ ext' = [io |-> io]
    /\ UNCHANGED <<stmVars, storeVars, now, agentVars>>

\* MetricsLogger.print_metrics_summary; ext keeps what was printed.
PrintSummary ==
    /\ calls <= MaxCallsMetrics
    /\ logger' = after_get_aggregated_metrics(logger)
    /\ ret' = Returned("print_metrics_summary", None)
    /\ calls' = calls + 1
    /\ ext' = [printed |-> printed_sections(logger)]
    /\ UNCHANGED <<stmVars, storeVars, now, agentVars>>

\* What an earlier run of the program left in the log directory: the line of
\* one prompt event.
EarlierRun ==
    log_prompt_metrics(NewMetricsLogger(0, EmptyLogDir), 20, TRUE, FALSE, 5, NoDict, 0, TRUE)

LogDirs == { EmptyLogDir, [files |-> EarlierRun.files, snapshot |-> EarlierRun.snapshot] }

\* A logger constructed at any reading of the clock, on a log directory that
\* is new or was used before.
InitMetrics ==
    /\ max_messages = 10
    /\ messages = <<>>
    /\ session_start = 0
    /\ appended = <<>>
    /\ held = NoList
    /\ now \in ClockReadings
    /\ \E d \in LogDirs : logger = NewMetricsLogger(now, d)
    /\ store_logger = None
    /\ has_score = TRUE
    /\ chunks = <<>>
    /\ next_uuid = 1
    /\ ext = EmptyDict
    /\ calls = 0
    /\ ret = NoRet
    /\ turn = Idle
    /\ crew = NoCrew

\* The clock is read, not advanced, by the logger's methods here: no result
\* of the logger depends on the readings but the timestamps and the uptime.
NextMetrics ==
    \/ \E e \in PromptInputs, io \in BOOLEAN : LogPrompt(e, now, io)
    \/ \E e \in RagInputs, io \in BOOLEAN : LogRag(e, now, io)
    \/ \E e \in AgentInputs, io \in BOOLEAN : LogAgent(e, now, io)
    \/ \E e \in SystemInputs, t2 \in ClockReadings, io \in BOOLEAN : LogSystem(e, now, t2, io)
    \/ GetAggregated
    \/ \E io \in BOOLEAN : SaveAggregated(io)
    \/ PrintSummary

SpecMetrics == InitMetrics /\ [][NextMetrics]_vars

(***************************************************************************)
(* The long-term store with its logger: any sequence of store operations   *)
(* on an index that already holds some chunks (it persists across runs).   *)
(***************************************************************************)
\* The queries searched for: one of 1 character and one of 101.  The long
\* one is the query of the first call of a run only.
Queries == {"q", "q101"}
QueriesAt(n) == IF n = 0 THEN Queries ELSE {"q"}
Distances == {-10, 0, 10, 20, 30}
Ks == {1, 5}

SavedChunk(i, cat) ==
    [ id |-> i,
      page_content |-> [text |-> "a", part |-> 1],
      metadata |-> [timestamp |-> isoformat(0), type |-> "memory", category |-> cat] ]

UncategorisedChunk(i) ==
    [ id |-> i,
      page_content |-> [text |-> "b", part |-> 1],
      metadata |-> [timestamp |-> isoformat(0), type |-> "memory"] ]

\* A chunk of save_memory(text, metadata={"timestamp": ""}): the caller's
\* empty timestamp replaced the default one.
BlankStampChunk(i) ==
    [ id |-> i,
      page_content |-> [text |-> "b", part |-> 1],
      metadata |-> [timestamp |-> "", type |-> "memory"] ]

InitialStores ==
    { <<>>,
      <<SavedChunk(1, "work")>>,
      <<SavedChunk(1, "work"), UncategorisedChunk(2)>>,
      <<SavedChunk(1, "work"), SavedChunk(2, "work"), SavedChunk(3, "")>> }

\* The lists of hits a k-nearest search can return on `store`: at most k of
\* the stored chunks, nearest first.
SearchHits(store, k) ==
    UNION { { [i \in 1..n |-> [doc |-> store[i], score |-> d[i]]] :
                d \in { f \in [1..n -> Distances] :
                          \A i \in 1..n, j \in 1..n : i < j => f[i] < f[j] } } :
            n \in 0..Min(k, Len(store)) }

\* The outcomes of an index search: it raises, or it returns a list of hits.
SearchOutcomes(store, k) ==
    { [ok |-> FALSE, hits |-> <<>>] }
      \cup { [ok |-> TRUE, hits |-> h] : h \in SearchHits(store, k) }

\* tools.memory_tools.save_to_memory: metadata = {"category": category}
save_to_memory_metadata(category) == [category |-> category]

\* tools.memory_tools.remember_context: the metadata it saves with
remember_context_metadata == [category |-> "context", type |-> "session_context"]

\* The metadata of a save: none (a direct call), save_to_memory's with the
\* default or a given category, remember_context's, a direct call's with a
\* timestamp of its own (the empty string).
SaveMetadatas ==
    { NoDict, save_to_memory_metadata("general"), save_to_memory_metadata("work"),
      remember_context_metadata, [timestamp |-> ""] }

SaveFailures == {"none", "split", "uuid", "upsert"}

\* The id lists handed to delete_memory: one stored id, or all of them.
DeleteIds(store) ==
    LET all == { store[i].id : i \in 1..Len(store) }
    IN ({ {x} : x \in all } \cup {all}) \ {{}}

\* tools.memory_tools.memory_store: the one MemoryStore object of the module
memory_store == "MemoryStore"

\* tools.memory_tools.initialize_memory_store on the existing global store:
\* the logger is attached to it and the store is returned
InitializeMemoryStore(l) ==
    /\ calls < MaxCallsStore
    /\ store_logger' = l
    /\ ret' = Returned("initialize_memory_store", memory_store)
    /\ ext' = EmptyDict
    /\ calls' = calls + 1
    /\ UNCHANGED <<stmVars, metricsVars, has_score, chunks, next_uuid, now, agentVars>>

Retrieve(query, k, search, t, io1, io2) ==
    /\ calls < MaxCallsStore
    /\ LET r == retrieve_memories_with_scores(logger, store_logger, has_score,
                    query, k, search, t - now, t, io1, io2)
       IN /\ logger' = r.logger
          /\ ret' = r.ret
    /\ ext' = [search_ok |-> search.ok, io1 |-> io1, io2 |-> io2]
    /\ now' = t
    /\ calls' = calls + 1
    /\ UNCHANGED <<stmVars, storeVars, agentVars>>

RetrieveMemories(query, k, search) ==
    /\ calls < MaxCallsStore
    /\ ret' = Returned("retrieve_memories", retrieve_memories(search))
    /\ ext' = [search_ok |-> search.ok]
    /\ calls' = calls + 1
    /\ UNCHANGED <<stmVars, metricsVars, storeVars, now, agentVars>>

\* One call of the search_memory tool.
SearchMemory(query, limit, search, t, io1, io2) ==
    /\ calls < MaxCallsStore
    /\ LET r == search_memory(logger, store_logger, has_score, query, limit, search,
                    t - now, t, io1, io2)
       IN /\ logger' = r.logger
          /\ ret' = r.ret
          /\ ext' = [search_ok |-> search.ok, hits |-> search.hits,
                     memories |-> r.memories]
    /\ now' = t
    /\ calls' = calls + 1
    /\ UNCHANGED <<stmVars, storeVars, agentVars>>

SaveMemory(content, metadata, n, fail, t) ==
    /\ calls < MaxCallsStore
    /\ chunks' = save_memory_chunks(chunks, fragments_of(content, n), metadata, fail,
                                    next_uuid, t)
    /\ next_uuid' = IF fail \in {"none", "upsert"} THEN next_uuid + n ELSE next_uuid
    /\ ret' = save_memory_outcome(n, fail)
    /\ ext' = [fail |-> fail, metadata |-> metadata, stored |-> Len(chunks)]
    /\ now' = t
    /\ calls' = calls + 1
    /\ UNCHANGED <<stmVars, metricsVars, store_logger, has_score, agentVars>>
\* save_memory of a text on a store whose splitter has chunk size C and
\* overlap O: the fragments stored are those split_documents returns.
SaveText(text, C, O, metadata, fail, t) ==
    /\ calls < MaxCallsSplit
    /\ LET documents == split_documents(text, C, O)
       IN /\ chunks' = save_memory_chunks(chunks, documents, metadata, fail, next_uuid, t)
          /\ next_uuid' = IF fail \in {"none", "upsert"} THEN next_uuid + Len(documents)
                                                         ELSE next_uuid
          /\ ret' = save_memory_outcome(Len(documents), fail)
    /\ ext' = [fail |-> fail, text |-> text, chars |-> text.len, chunk_size |-> C,
               chunk_overlap |-> O, stored |-> Len(chunks)]
    /\ now' = t
    /\ calls' = calls + 1
    /\ UNCHANGED <<stmVars, metricsVars, store_logger, has_score, agentVars>>

DeleteMemory(ids, ok) ==
    /\ calls < MaxCallsStore
    /\ chunks' = IF ok THEN without_ids(chunks, ids) ELSE chunks
    /\ ret' = Returned("delete_memory", delete_memory(ok))
    /\ ext' = [delete_ok |-> ok]
    /\ calls' = calls + 1
    /\ UNCHANGED <<stmVars, metricsVars, store_logger, has_score, next_uuid, now, agentVars>>

GetAllMemories(limit, ok) ==
    /\ calls < MaxCallsStore
    /\ ret' = Returned("get_all_memories", get_all_memories(chunks, limit, ok))
    /\ ext' = [list_ok |-> ok, limit |-> limit]
    /\ calls' = calls + 1
    /\ UNCHANGED <<stmVars, metricsVars, storeVars, now, agentVars>>

ClearAllMemories(list_ok, delete_ok) ==
    /\ calls < MaxCallsStore
    /\ chunks' = clear_all_chunks(chunks, list_ok, delete_ok)
    /\ ret' = Returned("clear_all_memories", clear_all_memories(chunks, list_ok, delete_ok))
    /\ ext' = [ list_ok |-> list_ok,
                delete_called |-> clear_all_ids(chunks, list_ok) # {},
                delete_ok |-> delete_ok ]
    /\ calls' = calls + 1
    /\ UNCHANGED <<stmVars, metricsVars, store_logger, has_score, next_uuid, now, agentVars>>

InitStore ==
    /\ max_messages = 10
    /\ messages = <<>>
    /\ session_start = 0
    /\ appended = <<>>
    /\ held = NoList
    /\ logger = NewMetricsLogger(0, EmptyLogDir)
    /\ store_logger \in {None, "logger"}
    /\ has_score \in BOOLEAN
    /\ chunks \in InitialStores
    /\ next_uuid = Len(chunks) + 1
    /\ now = 0
    /\ calls = 0
    /\ ext = EmptyDict
    /\ ret = NoRet
    /\ turn = Idle
    /\ crew = NoCrew

\* Retrievals on a store whose logger may or may not be attached.  The clock
\* is read, not advanced: the latency is 0.
NextRetrieve ==
    \/ \E l \in {None, "logger"} : InitializeMemoryStore(l)
    \/ /\ calls < MaxCallsStore
       /\ \E q \in QueriesAt(calls), k \in Ks, io1 \in BOOLEAN, io2 \in BOOLEAN :
             \E search \in SearchOutcomes(chunks, k) : Retrieve(q, k, search, now, io1, io2)
    \/ /\ calls < MaxCallsStore
       /\ \E search \in SearchOutcomes(chunks, 1) : RetrieveMemories("q", 1, search)

SpecRetrieve == InitStore /\ [][NextRetrieve]_vars

\* A document put into the index by other means than save_memory: it has no
\* metadata.
ForeignChunk(i) ==
    [ id |-> i,
      page_content |-> [text |-> "c", part |-> 1],
      metadata |-> NoDict ]

\* The stores the search tool runs on: those of save_memory, one that holds
\* a document without a timestamp and one that holds a chunk saved with an
\* empty timestamp.
SearchStores ==
    InitialStores \cup { <<ForeignChunk(1), SavedChunk(2, "work")>>,
                         <<BlankStampChunk(1), SavedChunk(2, "work")>> }

InitSearch ==
    /\ max_messages = 10
    /\ messages = <<>>
    /\ session_start = 0
    /\ appended = <<>>
    /\ held = NoList
    /\ logger = NewMetricsLogger(0, EmptyLogDir)
    /\ store_logger \in {None, "logger"}
    /\ has_score \in BOOLEAN
    /\ chunks \in SearchStores
    /\ next_uuid = Len(chunks) + 1
    /\ now = 0
    /\ calls = 0
    /\ ext = EmptyDict
    /\ ret = NoRet
    /\ turn = Idle
    /\ crew = NoCrew

\* Calls of the search tool on a store whose logger may or may not be
\* attached.  The clock is read, not advanced.
NextSearch ==
    \/ \E l \in {None, "logger"} : InitializeMemoryStore(l)
    \/ /\ calls < MaxCallsStore
       /\ \E q \in QueriesAt(calls), limit \in Ks, io1 \in BOOLEAN, io2 \in BOOLEAN :
             \E search \in SearchOutcomes(chunks, limit) :
                 SearchMemory(q, limit, search, now, io1, io2)

SpecSearch == InitSearch /\ [][NextSearch]_vars

\* Saves, deletions, listings and clears of the index.
NextStore ==
    \/ \E md \in SaveMetadatas, n \in 1..MaxFragments, fail \in SaveFailures :
          SaveMemory("a", md, n, fail, now)
    \/ \E ids \in DeleteIds(chunks), ok \in BOOLEAN : DeleteMemory(ids, ok)
    \/ \E limit \in {1, DefaultListLimit}, ok \in BOOLEAN : GetAllMemories(limit, ok)
    \/ \E list_ok \in BOOLEAN, delete_ok \in BOOLEAN : ClearAllMemories(list_ok, delete_ok)

SpecStore == InitStore /\ [][NextStore]_vars

\* An index that holds one chunk more than get_all_memories lists by default.
LargeStore == [i \in 1..(DefaultListLimit + 1) |-> SavedChunk(i, "work")]

InitClear ==
    /\ max_messages = 10
    /\ messages = <<>>
    /\ session_start = 0
    /\ appended = <<>>
    /\ held = NoList
    /\ logger = NewMetricsLogger(0, EmptyLogDir)
    /\ store_logger \in {None, "logger"}
    /\ has_score = TRUE
    /\ chunks \in InitialStores \cup {LargeStore}
    /\ next_uuid = Len(chunks) + 1
    /\ now = 0
    /\ calls = 0
    /\ ext = EmptyDict
    /\ ret = NoRet
    /\ turn = Idle
    /\ crew = NoCrew

\* The store operations on indexes of every size, one above the default
\* list limit included.
SpecClear == InitClear /\ [][NextStore]_vars

\* The texts saved to exercise the splitter: lengths around the chunk size under the
\* default configuration, and every length up to MaxChars under two small
\* configurations, one of them without overlap.
\* Where the spaces of a short text of L characters sit: nowhere, at the
\* front, at the end, at both ends, everywhere, or after every second or
\* third letter.
SpacePatterns(L) ==
    { {}, {0} \cap (0..(L - 1)), {L - 1} \cap (0..(L - 1)), {0, L - 1} \cap (0..(L - 1)),
      0..(L - 1),
      { p \in 0..(L - 1) : p % 3 = 2 },
      { p \in 0..(L - 1) : p % 4 = 3 } }

\* Seven words of 352 and six times 357 letters with a space between them:
\* 2500 characters.
SevenWords == Text(2500, { 352 + 358 * i : i \in 0..5 })

\* Two letters with a space before and after them
Padded == Text(4, {0, 3})

\* The texts saved: short ones under the chunk sizes and overlaps (5, 2) and
\* (4, 0), and the padded text and texts of 1000, 1001 and 2500 characters
\* under the configured chunk size and overlap.
SplitInputs ==
    { <<Text(L, {}), MEMORY_CHUNK_SIZE, MEMORY_CHUNK_OVERLAP>> : L \in {1000, 1001, 2500} }
      \cup { <<SevenWords, MEMORY_CHUNK_SIZE, MEMORY_CHUNK_OVERLAP>>,
             <<Padded, MEMORY_CHUNK_SIZE, MEMORY_CHUNK_OVERLAP>> }
      \cup UNION { { <<Text(L, sp), 5, 2>> : sp \in SpacePatterns(L) } : L \in 0..MaxChars }
      \cup UNION { { <<Text(L, sp), 4, 0>> : sp \in SpacePatterns(L) } : L \in 0..MaxChars }

NextSplit ==
    \E in \in SplitInputs, fail \in SaveFailures :
        SaveText(in[1], in[2], in[3], save_to_memory_metadata("general"), fail, now)

SpecSplit == InitStore /\ [][NextSplit]_vars

(***************************************************************************)
(* One MemoryAgent in the REPL: chat turns.  A turn starts by appending    *)
(* the user message and handing the buffer to the agent loop; while the    *)
(* loop runs it may call the search_memory tool; the turn finishes with    *)
(* the loop's outcome.                                                     *)
(***************************************************************************)
AgentMaxMessages == 10

\* The messages sent to chat: one of 1 character and one of 101.  The long
\* one is the message of the first turn of a run only.
UserMessages == {"a", "m101"}
UserMessagesAt(n) == IF n = 0 THEN UserMessages ELSE {"a"}

\* What agent.invoke hands back: an exception, or a result.  shape: a dict
\* with messages / a dict with output only / any other object.  text: the
\* response the decoding yields.  tool_calls: the tool names listed in the
\* result's messages.  content_ok: the decoded response is a str.
\* tool_calls_attr: what the tool_calls attributes of the result's messages
\* are: lists of dicts, or one of them is a list with an element that is no
\* dict, or one of them cannot be iterated (None, a number).
AgentOutcomes ==
    { [ok |-> FALSE, error |-> "RuntimeError"],
      [ok |-> TRUE, shape |-> "messages", text |-> "answer", tool_calls |-> <<>>,
       content_ok |-> TRUE, tool_calls_attr |-> "list_of_dicts"],
      [ok |-> TRUE, shape |-> "messages", text |-> "refusal",
       tool_calls |-> <<"search_memory">>, content_ok |-> TRUE, tool_calls_attr |-> "list_of_dicts"],
      [ok |-> TRUE, shape |-> "messages", text |-> "apology", tool_calls |-> <<>>,
       content_ok |-> TRUE, tool_calls_attr |-> "list_of_dicts"],
      [ok |-> TRUE, shape |-> "output", text |-> "answer", tool_calls |-> <<>>,
       content_ok |-> TRUE, tool_calls_attr |-> "list_of_dicts"],
      [ok |-> TRUE, shape |-> "raw", text |-> "answer", tool_calls |-> <<>>,
       content_ok |-> TRUE, tool_calls_attr |-> "list_of_dicts"],
      [ok |-> TRUE, shape |-> "messages", text |-> "blocks", tool_calls |-> <<>>,
       content_ok |-> FALSE, tool_calls_attr |-> "list_of_dicts"],
      [ok |-> TRUE, shape |-> "messages", text |-> "answer", tool_calls |-> <<>>,
       content_ok |-> TRUE, tool_calls_attr |-> "list_of_non_dicts"],
      [ok |-> TRUE, shape |-> "messages", text |-> "answer", tool_calls |-> <<>>,
       content_ok |-> TRUE, tool_calls_attr |-> "not_iterable"] }

\* The sets of log files whose append fails during one chat call
BrokenFiles == SUBSET {"prompts", "agents", "system"}

\* The outcomes of the index search made for the tool: it raises, or it
\* returns the first stored chunk at the smallest distance.
ToolSearchOutcomes(store) ==
    { [ok |-> FALSE, hits |-> <<>>],
      [ok |-> TRUE, hits |-> <<[doc |-> store[1], score |-> 5]>>] }

ChatStartStaleHistory(message, t) ==
    /\ turn.pc = "idle"
    /\ calls < MaxTurns
    /\ messages' = add_message(messages, HumanMessage(message), max_messages)
    /\ appended' = Append(appended, HumanMessage(message))
    /\ turn' = [ pc |-> "invoking", message |-> message, start_time |-> t,
                 history_messages |-> get_messages(messages).items, before |-> messages,
                 tools |-> turn.tools,
                 trace |-> <<"add_user_message", "get_messages", "invoke">> ]
    /\ now' = t
    /\ calls' = calls + 1
    /\ ret' = NoRet
    /\ ext' = EmptyDict
    /\ held' = held_after_append(held, messages, HumanMessage(message), max_messages)
    /\ UNCHANGED <<max_messages, session_start, metricsVars, storeVars, crew>>

\* MemoryAgent.chat up to the call of agent.invoke
ChatStart(message, t) ==
    /\ turn.pc = "idle"
    /\ calls < MaxTurns
    /\ messages' = add_message(messages, HumanMessage(message), max_messages)
    /\ appended' = Append(appended, HumanMessage(message))
    /\ turn' = [ pc |-> "invoking", message |-> message, start_time |-> t,
                 history_messages |-> get_messages(messages').items, before |-> messages,
                 tools |-> turn.tools,
                 trace |-> <<"add_user_message", "get_messages", "invoke">> ]
    /\ now' = t
    /\ calls' = calls + 1
    /\ ret' = NoRet
    /\ ext' = EmptyDict
    /\ held' = held_after_append(held, messages, HumanMessage(message), max_messages)
    /\ UNCHANGED <<max_messages, session_start, metricsVars, storeVars, crew>>

\* The agent loop calls the search_memory tool, which retrieves from the
\* global store.
AgentSearchMemory(query, k, search, io1, io2) ==
    /\ turn.pc = "invoking"
    /\ turn.tools < MaxToolCalls
    /\ LET r == search_memory(logger, store_logger, has_score,
                    query, k, search, 0, now, io1, io2)
       IN /\ logger' = r.logger
          /\ ret' = r.ret
    /\ ext' = [search_ok |-> search.ok, io1 |-> io1, io2 |-> io2]
    /\ turn' = [turn EXCEPT !.tools = @ + 1]
    /\ UNCHANGED <<stmVars, storeVars, now, calls, crew>>

\* MemoryAgent.chat from the outcome of agent.invoke to its return or raise
ChatFinish(outcome, t, broken) ==
    /\ turn.pc = "invoking"
    /\ LET m == IF outcome.ok
                THEN add_message(messages, AIMessage(outcome.text), max_messages)
                ELSE messages
           r == chat_finish(logger, turn.history_messages, turn.message, outcome,
                            t - turn.start_time, t, broken)
       IN /\ messages' = m
          /\ appended' = IF outcome.ok THEN Append(appended, AIMessage(outcome.text))
                         ELSE appended
          /\ logger' = r.logger
          /\ ret' = r.ret
          /\ turn' = [pc |-> "idle", tools |-> turn.tools, trace |-> turn.trace \o r.trace]
    /\ ext' = [ agent_ok |-> outcome.ok, before |-> turn.before,
                message |-> turn.message,
                error |-> IF outcome.ok THEN None ELSE outcome.error ]
    /\ held' = IF outcome.ok
               THEN held_after_append(held, messages, AIMessage(outcome.text), max_messages)
               ELSE held
    /\ now' = t
    /\ UNCHANGED <<max_messages, session_start, storeVars, calls, crew>>

\* MemoryAgent.clear_short_term_memory, between two chat calls
ClearShortTermMemory(t) == turn.pc = "idle" /\ calls < MaxTurns /\ Clear(t)

\* MemoryAgent.get_conversation_history, between two chat calls
GetConversationHistory == turn.pc = "idle" /\ calls < MaxTurns /\ GetConversationSummary

\* MemoryAgent.save_context, between two chat calls: the remember_context
\* tool on the global store
SaveContext(context, n, fail, t) ==
    /\ turn.pc = "idle"
    /\ calls < MaxTurns
    /\ SaveMemory(context, remember_context_metadata, n, fail, t)

\* MemoryAgent() followed by the REPL's chat calls: the constructor makes a
\* logger, attaches it to the global store and makes a buffer of 10.
InitChat ==
    /\ max_messages = AgentMaxMessages
    /\ messages = <<>>
    /\ session_start = 0
    /\ appended = <<>>
    /\ held = NoList
    /\ logger = NewMetricsLogger(0, EmptyLogDir)
    /\ store_logger = "logger"
    /\ has_score = TRUE
    /\ chunks = <<SavedChunk(1, "work")>>
    /\ next_uuid = Len(chunks) + 1
    /\ now = 0
    /\ calls = 0
    /\ ext = EmptyDict
    /\ ret = NoRet
    /\ turn = Idle
    /\ crew = NoCrew

\* The clock is read, not advanced: every latency is 0.  The tool's search
\* fails or returns the stored chunk, and its log append succeeds.
NextChat ==
    \/ \E m \in UserMessagesAt(calls) : ChatStart(m, now)
    \/ \E search \in ToolSearchOutcomes(chunks) :
          AgentSearchMemory("q", 5, search, TRUE, TRUE)
    \/ \E outcome \in AgentOutcomes, broken \in BrokenFiles :
          ChatFinish(outcome, now, broken)
    \/ ClearShortTermMemory(now)
    \/ GetConversationHistory
    \/ \E fail \in {"none", "upsert"} : SaveContext("a", 1, fail, now)

SpecChat == InitChat /\ [][NextChat]_vars

(***************************************************************************)
(* Several MemoryAgent instances in one process.  Each has its own         *)
(* MetricsLogger and ShortTermMemory; the tools use the one module-level   *)
(* memory_store, whose metrics_logger is the logger of the instance that   *)
(* called initialize_memory_store last (store_logger names that instance). *)
(* The events and the accumulator of a MetricsLogger are its own; its four *)
(* log files and the snapshot file are those of its log_dir, and loggers   *)
(* made with the same log_dir append to the same files.                    *)
(***************************************************************************)
Agents == {"first", "second"}

\* log_dir of MetricsLogger() when none is given
DefaultLogDir == "./data/metrics"

\* A directory only the logger of instance a is given
PrivateLogDir(a) == "./data/metrics/" \o a

\* MemoryAgent() makes MetricsLogger() on the default directory; a caller may
\* pass MemoryAgent(metrics_logger = MetricsLogger(log_dir)) instead.
AgentLogDirs(a) == {DefaultLogDir, PrivateLogDir(a)}

\* The files a logger sees in its directory
LogDirOf(L) == [files |-> L.files, snapshot |-> L.snapshot]

\* Logger L reading the files d of its directory
WithLogDir(L, d) == [L EXCEPT !.files = d.files, !.snapshot = d.snapshot]

\* Instance x's logger has become L: what it appended is in the files of its
\* directory, hence in the files of every logger on that directory; the
\* events and accumulators in memory of the other loggers are untouched.
crew_logged(c, x, L) ==
    LET disk == Put(c.disk, c.log_dirs[x], LogDirOf(L))
    IN [c EXCEPT !.disk = disk,
                 !.loggers = [b \in DOMAIN c.loggers |->
                                 IF b = x THEN L
                                 ELSE WithLogDir(c.loggers[b], disk[c.log_dirs[b]])]]

\* What the agent loop hands back in these runs: it raises, or it answers.
CrewOutcomes == { o \in AgentOutcomes : ~o.ok \/ (o.text = "answer" /\ o.shape = "messages"
                                                  /\ o.content_ok /\ o.tool_calls_attr = "list_of_dicts") }

\* MemoryAgent(): a MetricsLogger of its own on log_dir, with the files the
\* directory already holds, initialize_memory_store with it on the existing
\* global store, a buffer of 10.
NewMemoryAgent(a, log_dir, t) ==
    /\ calls < MaxCrewCalls
    /\ a \notin DOMAIN crew.loggers
    /\ LET d == Get(crew.disk, log_dir, EmptyLogDir)
       IN crew' = [crew EXCEPT !.loggers = Put(@, a, NewMetricsLogger(t, d)),
                               !.buffers = Put(@, a, <<>>),
                               !.turns = Put(@, a, [pc |-> "idle"]),
                               !.log_dirs = Put(@, a, log_dir),
                               !.disk = Put(@, log_dir, d)]
    /\ store_logger' = a
    /\ ret' = Returned("MemoryAgent", a)
    /\ ext' = [caller |-> a]
    /\ now' = t
    /\ calls' = calls + 1
    /\ UNCHANGED <<stmVars, metricsVars, has_score, chunks, next_uuid, turn>>

\* chat of instance a up to the call of agent.invoke
CrewChatStart(a, message, t) ==
    /\ calls < MaxCrewCalls
    /\ a \in DOMAIN crew.loggers
    /\ crew.turns[a].pc = "idle"
    /\ LET m == add_message(crew.buffers[a], HumanMessage(message), AgentMaxMessages)
       IN crew' = [crew EXCEPT !.buffers[a] = m,
                               !.turns[a] = [ pc |-> "invoking", message |-> message,
                                              start_time |-> t,
                                              history_messages |-> get_messages(m).items ]]
    /\ ret' = NoRet
    /\ ext' = [caller |-> a]
    /\ now' = t
    /\ calls' = calls + 1
    /\ UNCHANGED <<stmVars, metricsVars, storeVars, turn>>

\* The agent loop of instance a calls the search_memory tool: the retrieval
\* event goes to the logger the global store holds, its line to the files of
\* that logger's directory.
CrewSearchMemory(a, query, k, search, io1, io2) ==
    /\ a \in DOMAIN crew.loggers
    /\ crew.turns[a].pc = "invoking"
    /\ crew.tools < MaxCrewToolCalls
    /\ LET r == search_memory(crew.loggers[store_logger], store_logger, has_score,
                    query, k, search, 0, now, io1, io2)
       IN /\ crew' = [crew_logged(crew, store_logger, r.logger) EXCEPT !.tools = @ + 1]
          /\ ret' = r.ret
    /\ ext' = [caller |-> a, search_ok |-> search.ok]
    /\ UNCHANGED <<stmVars, metricsVars, storeVars, now, calls, turn>>

\* chat of instance a from the outcome of agent.invoke to its return or raise
CrewChatFinish(a, outcome, t, broken) ==
    /\ a \in DOMAIN crew.loggers
    /\ crew.turns[a].pc = "invoking"
    /\ LET u == crew.turns[a]
           r == chat_finish(crew.loggers[a], u.history_messages, u.message, outcome,
                            t - u.start_time, t, broken)
       IN /\ crew' = [crew_logged(crew, a, r.logger) EXCEPT
                         !.buffers[a] = IF outcome.ok
                                        THEN add_message(@, AIMessage(outcome.text),
                                                         AgentMaxMessages)
                                        ELSE @,
                         !.turns[a] = [pc |-> "idle"]]
          /\ ret' = r.ret
    /\ ext' = [caller |-> a, agent_ok |-> outcome.ok]
    /\ now' = t
    /\ UNCHANGED <<stmVars, metricsVars, storeVars, calls, turn>>

\* The module-level store exists before any MemoryAgent, without a logger.
\* The default log directory is empty or holds the files of an earlier run.
InitCrew ==
    /\ max_messages = AgentMaxMessages
    /\ messages = <<>>
    /\ session_start = 0
    /\ appended = <<>>
    /\ held = NoList
    /\ logger = NewMetricsLogger(0, EmptyLogDir)
    /\ store_logger = None
    /\ has_score = TRUE
    /\ chunks = <<SavedChunk(1, "work")>>
    /\ next_uuid = Len(chunks) + 1
    /\ now = 0
    /\ calls = 0
    /\ ext = EmptyDict
    /\ ret = NoRet
    /\ turn = Idle
    /\ \E d \in LogDirs : crew = [NoCrew EXCEPT !.disk = Put(<<>>, DefaultLogDir, d)]

\* The instances are made at any time and their turns interleave.  The clock
\* is read, not advanced, and the log appends succeed.
NextCrew ==
    \/ \E a \in Agents : \E log_dir \in AgentLogDirs(a) : NewMemoryAgent(a, log_dir, now)
    \/ \E a \in Agents, m \in UserMessagesAt(calls) : CrewChatStart(a, m, now)
    \/ \E a \in Agents, search \in ToolSearchOutcomes(chunks) :
          CrewSearchMemory(a, "q", 5, search, TRUE, TRUE)
    \/ \E a \in Agents, outcome \in CrewOutcomes : CrewChatFinish(a, outcome, now, {})

SpecCrew == InitCrew /\ [][NextCrew]_vars

(***************************************************************************)
(* Claims on the short-term buffer                                         *)
(***************************************************************************)

\* C1: for every positive capacity, after every add_user_message,
\* add_ai_message or clear the number of stored messages is at most the
\* capacity.
C1_LenAtMostCapacity == Len(messages) <= max_messages

\* C1 witness: an append arrived at a full buffer and the buffer is still at
\* capacity.
C1_Witness ==
    /\ ret.op \in {"add_user_message", "add_ai_message"}
    /\ Len(appended) > max_messages
    /\ Len(messages) = max_messages

\* C2: the buffer equals the last min(capacity, number of appends) messages
\* appended since creation or the last clear, roles and contents included, in
\* the order they were appended.
C2_StrictFifo ==
    messages = SubSeq(appended,
                      Len(appended) - Min(max_messages, Len(appended)) + 1,
                      Len(appended))

\* C2 witness: more messages were appended than fit, the evicted and the kept
\* messages differ, and the buffer holds the newest ones.
C2_Witness ==
    /\ Len(appended) > max_messages
    /\ max_messages >= 2
    /\ appended[1] # appended[Len(appended)]
    /\ messages[1] # messages[2]
    /\ messages[Len(messages)] = appended[Len(appended)]

\* A step in which a call of clear ends / a message is appended
ClearStep == ret'.op = "clear" /\ calls' = calls + 1
AppendStep == ret'.op \in {"add_user_message", "add_ai_message"} /\ calls' = calls + 1

\* C15 as stated: clear() leaves the buffer with length 0 and sets
\* session_start to a time later than the one it had before.
C15_ClearAdvancesStart ==
    [][ClearStep => (Len(messages') = 0 /\ session_start' > session_start)]_vars

\* C15, amended: clear() leaves the buffer with length 0 and sets
\* session_start to the wall-clock reading of the call, whatever the
\* session_start it had before (the reading may be later, equal or earlier);
\* the capacity is kept and the message appended next is the buffer's first.
C15_ClearSetsStartToNow ==
    [][/\ ClearStep =>
            /\ Len(messages') = 0
            /\ session_start' = now'
            /\ max_messages' = max_messages
       /\ (ret.op = "clear" /\ AppendStep) =>
            /\ Len(messages') = 1
            /\ messages'[1] = appended'[Len(appended')]
            /\ max_messages' = max_messages]_vars

\* clear() has emptied a full buffer and read a clock that stood earlier than
\* the session_start it replaced
C15_Witness ==
    /\ ret.op = "clear"
    /\ ext.cleared = max_messages
    /\ messages = <<>>
    /\ session_start = now
    /\ session_start < ext.previous_start

\* A step in which the caller edits the list it holds
CallerStep == ret'.op = "caller_edit" /\ calls' = calls + 1

\* C16: get_messages returns the full ordered sequence as a copy: adding to,
\* removing from or reordering the returned list never changes the buffer,
\* and later appends, trims or clears of the buffer never change a list
\* returned earlier.
C16_GetMessagesIsACopy ==
    [][/\ (ret'.op = "get_messages" /\ calls' = calls + 1) =>
            (ret'.val = messages /\ held'.items = messages /\ messages' = messages)
       /\ (CallerStep /\ held.op = "get_messages") =>
            (messages' = messages /\ held'.items = mutated(held.items, ext'.edit))
       /\ ((AppendStep \/ ClearStep) /\ held.op = "get_messages") =>
            held'.items = held.items]_vars

\* The caller has edited a list returned by get_messages and the buffer has
\* then been trimmed by an append: the two lists differ.
C16_Witness ==
    /\ held.op = "get_messages"
    /\ ret.op \in {"add_user_message", "add_ai_message"}
    /\ Len(appended) > max_messages
    /\ held.items # messages
    /\ Len(held.items) > 0

\* C17: for every n >= 0 and every buffer state, get_recent(n) returns
\* exactly the last min(n, len) messages in buffer order: none when n is 0.
C17_RecentIsLastMin ==
    (ret.op = "get_recent_messages") =>
        ret.val = SubSeq(messages, Len(messages) - Min(ext.n, Len(messages)) + 1,
                         Len(messages))

(***************************************************************************)
(* Claims on the long-term store                                           *)
(***************************************************************************)

\* A step that is one call of retrieve_memories_with_scores.
RetrieveStep == ret'.op = "retrieve" /\ calls' = calls + 1

\* C3: every call of retrieve, whether it returns results, returns an empty
\* list or the index raises, adds exactly one Retrieval event: total_retrievals
\* and the line count of the retrieval log each grow by exactly 1.
C3_ExactlyOneRetrievalEvent ==
    [][RetrieveStep =>
          /\ logger'.aggregated_metrics.rag.total_retrievals
                = logger.aggregated_metrics.rag.total_retrievals + 1
          /\ Len(logger'.files.rag) = Len(logger.files.rag) + 1]_vars

\* C4: when the index call inside retrieve fails, retrieve does not raise, it
\* returns the empty list, and it has reported one Retrieval event with an
\* empty confidence list, 0 chunks and 0 source diversity.  Stated for the
\* calls in which the append to the retrieval log succeeds (io2): the index
\* failure is then the only failure of the call.
C4_IndexFailureReported ==
    [][(RetrieveStep /\ ~ext'.search_ok /\ ext'.io2) =>
          /\ ret'.kind = "return"
          /\ ret'.val = <<>>
          /\ Len(logger'.rag_metrics) = Len(logger.rag_metrics) + 1
          /\ LET e == logger'.rag_metrics[Len(logger'.rag_metrics)]
             IN /\ e.retrieval_confidence_scores = <<>>
                /\ e.num_chunks_retrieved = 0
                /\ e.source_diversity = 0]_vars

\* The chunks a call of retrieve returned: none when it raised
ReturnedChunks(r) == IF r.kind = "return" THEN r.val ELSE <<>>

\* The distinct non-empty category values among returned chunks
DistinctCategories(ms) ==
    { c \in { IF "category" \in DOMAIN ms[i].metadata THEN ms[i].metadata.category ELSE ""
                : i \in 1..Len(ms) } : c # "" }

\* C22: the source_diversity reported in a retrieval's metric event is the
\* number of distinct non-empty category values among the chunks the
\* retrieval returned; chunks with a missing or empty category add nothing,
\* and it is 0 for an empty or failed retrieval.  Stated of every event a
\* call of retrieve adds on a store with a logger, and the call adds one.
C22_SourceDiversity ==
    [][(RetrieveStep /\ store_logger # None) =>
          /\ Len(logger'.rag_metrics) > Len(logger.rag_metrics)
          /\ \A i \in (Len(logger.rag_metrics) + 1)..Len(logger'.rag_metrics) :
                logger'.rag_metrics[i].source_diversity
                    = Cardinality(DistinctCategories(ReturnedChunks(ret')))]_vars

\* C25: after any sequence of retrievals the aggregate's concatenated
\* confidence list holds exactly one entry per retrieved chunk: its length is
\* total_chunks_retrieved.
C25_OneConfidencePerChunk ==
    Len(logger.aggregated_metrics.rag.confidence_scores)
        = logger.aggregated_metrics.rag.total_chunks_retrieved

\* A retrieve of the with-score branch that returned hits and reported them
ReportedHits ==
    /\ ret.op = "retrieve"
    /\ ret.kind = "return"
    /\ ret.val # <<>>
    /\ has_score
    /\ store_logger # None

\* C12: the confidence reported for a retrieved chunk with distance d is
\* clamp(1 - d/2, 0, 1): 1.0 for d <= 0, 0.0 for d >= 2, 1 - d/2 between, 0.5
\* for d = 1; every reported confidence lies in [0, 1].  (Distances in tenths,
\* confidences in twentieths.)
C12_ConfidenceClamped ==
    ReportedHits =>
        LET e == logger.rag_metrics[Len(logger.rag_metrics)]
        IN /\ Len(e.retrieval_confidence_scores) = Len(ret.val)
           /\ \A i \in 1..Len(ret.val) :
                 LET d == ret.val[i].relevance_score
                     c == e.retrieval_confidence_scores[i]
                 IN /\ c \in 0..20
                    /\ d <= 0 => c = 20
                    /\ d >= 20 => c = 0
                    /\ (0 < d /\ d < 20) => c = 20 - d
                    /\ d = 10 => c = 10

C12_Witness ==
    /\ ReportedHits
    /\ Len(ret.val) = 2
    /\ ret.val[1].relevance_score < 0
    /\ ret.val[2].relevance_score > 20

\* A step in which a call of save_memory ends
SaveStep == ret'.op = "save_memory" /\ calls' = calls + 1

\* C14: every call of save on a store with a logger attached, successful or
\* failed, results in one more metric event recorded by the logger.
C14_SaveReported ==
    [][(SaveStep /\ store_logger # None) =>
          \E s \in Streams :
             /\ Len(logger'.files[s]) = Len(logger.files[s]) + 1
             /\ logger'.aggregated_metrics[s][CountKey[s]]
                   = logger.aggregated_metrics[s][CountKey[s]] + 1]_vars

\* A save that stored its fragments
Saved == ret.op = "save_memory" /\ ret.kind = "return" /\ ret.val.tag = "saved"

\* C18: the metadata stored with every fragment of a save is the defaults
\* {timestamp, type = memory} overridden and extended by the caller's
\* metadata: save_to_memory stores its category and type = memory,
\* remember_context stores category = context and type = session_context, and
\* every fragment of one save carries the same metadata, timestamp included.
C18_FragmentMetadata ==
    Saved =>
        /\ Len(chunks) = ext.stored + ret.val.fragments
        /\ \A i \in (ext.stored + 1)..Len(chunks) :
              LET md == chunks[i].metadata
              IN /\ DOMAIN md = {"timestamp", "type"} \cup DOMAIN ext.metadata
                 /\ "timestamp" \notin DOMAIN ext.metadata => md.timestamp = isoformat(now)
                 /\ \A x \in DOMAIN ext.metadata : md[x] = ext.metadata[x]
                 /\ "type" \notin DOMAIN ext.metadata => md.type = "memory"
                 /\ md = chunks[Len(chunks)].metadata
                 /\ \A c \in {"general", "work"} :
                       ext.metadata = save_to_memory_metadata(c) =>
                           (md.category = c /\ md.type = "memory")
                 /\ ext.metadata = remember_context_metadata =>
                       (md.category = "context" /\ md.type = "session_context")

\* a remember_context save of two fragments or more
C18_Witness ==
    /\ Saved
    /\ ret.val.fragments >= 2
    /\ ext.metadata = remember_context_metadata
    /\ chunks[Len(chunks)].metadata.type = "session_context"
    /\ chunks[Len(chunks) - 1].metadata.category = "context"

\* C19: delete and list_all never propagate an index failure: delete returns
\* false and list_all the empty collections; on success delete returns true
\* and list_all at most `limit` entries.
C19_DeleteAndListContainFailure ==
    /\ ret.op = "delete_memory" =>
          /\ ret.kind = "return"
          /\ ret.val = ext.delete_ok
    /\ ret.op = "get_all_memories" =>
          /\ ret.kind = "return"
          /\ DOMAIN ret.val = {"ids", "documents", "metadatas"}
          /\ Len(ret.val.documents) = Len(ret.val.ids)
          /\ Len(ret.val.metadatas) = Len(ret.val.ids)
          /\ IF ext.list_ok
             THEN /\ Len(ret.val.ids) <= ext.limit
                  /\ Len(ret.val.ids) <= Len(chunks)
                  /\ \A i \in 1..Len(ret.val.ids) : ret.val.ids[i] = chunks[i].id
             ELSE Len(ret.val.ids) = 0

\* a listing with limit 1 of a store holding more than one fragment
C19_Witness ==
    /\ ret.op = "get_all_memories"
    /\ ext.list_ok
    /\ ext.limit = 1
    /\ Len(chunks) >= 2
    /\ Len(ret.val.ids) = 1

\* A call of search_memory that returned
SearchReturned == ret.op = "search_memory" /\ ret.kind = "return"

\* C20: search_memory returns the fixed nothing-found message exactly when
\* retrieve returns the empty list; otherwise it returns one entry per result,
\* numbered 1..n in retrieval order, and every entry shows the relevance
\* percentage 1 - distance (for every distance, 1.0 included), then the
\* content and, when the result has one, its save timestamp.
C20_SearchRendering ==
    SearchReturned =>
        /\ ret.val = NothingFound <=> ext.memories = <<>>
        /\ Len(ret.val.entries) = Len(ext.memories)
        /\ \A i \in 1..Len(ext.memories) :
              LET e == ret.val.entries[i]
                  m == ext.memories[i]
              IN /\ e.index = i
                 /\ e.content = m.content
                 /\ Len(e.score_text) = 1
                 /\ has_score => e.score_text = <<(10 - ext.hits[i].score) * 10>>
                 /\ e.timestamp = IF "timestamp" \in DOMAIN m.metadata
                                     /\ m.metadata.timestamp # ""
                                  THEN <<m.metadata.timestamp>> ELSE <<>>

\* ceil(a / b) for b > 0
CeilDiv(a, b) == (a + b - 1) \div b

\* A save of a text that returned the number of fragments it stored
SavedText == Saved /\ "text" \in DOMAIN ext

\* The fragments the last save stored
StoredFragments == SubSeq(chunks, ext.stored + 1, Len(chunks))

\* The number of fragments claimed for a text of L characters
ClaimedCount(L, C, O) == IF L <= C THEN 1 ELSE CeilDiv(L - O, C - O)

\* The stored fragment is the whole of the text saved
EqualToInput(c) ==
    /\ c.page_content.text = ext.text
    /\ c.page_content.from = 0
    /\ c.page_content.to = ext.chars

\* The stored fragments are cut from the text saved and follow each other
\* as they do in the text
InOriginalOrder ==
    /\ \A i \in 1..Len(StoredFragments) : StoredFragments[i].page_content.text = ext.text
    /\ \A i \in 1..(Len(StoredFragments) - 1) :
          /\ StoredFragments[i].page_content.from < StoredFragments[i + 1].page_content.from
          /\ StoredFragments[i].page_content.to < StoredFragments[i + 1].page_content.to

\* A save of 2500 characters under chunk size 1000 and overlap 200
DefaultSave2500 ==
    /\ SavedText
    /\ ext.chars = 2500
    /\ ext.chunk_size = 1000
    /\ ext.chunk_overlap = 200

\* C21: a save with chunk size C and overlap O stores exactly 1 fragment
\* equal to the input when the content length L <= C, and exactly
\* ceil((L - O) / (C - O)) fragments in original order when L > C; with
\* C = 1000, O = 200 and L = 2500 it stores 4 fragments.
C21_FragmentCount ==
    SavedText =>
        /\ Len(StoredFragments) = ClaimedCount(ext.chars, ext.chunk_size, ext.chunk_overlap)
        /\ ext.chars <= ext.chunk_size => \A i \in 1..Len(StoredFragments) :
                                              EqualToInput(StoredFragments[i])
        /\ ext.chars > ext.chunk_size => InOriginalOrder
        /\ DefaultSave2500 => Len(StoredFragments) = 4

\* C5: save never raises, whichever step fails: it returns a success result
\* carrying the fragment count or a failure result carrying the cause.
C5_SaveNeverRaises ==
    (ret.op = "save_memory") =>
        /\ ret.kind = "return"
        /\ \/ ret.val.tag = "saved" /\ ret.val.fragments >= 0
           \/ ret.val.tag = "error" /\ ret.val.cause # None

\* C6: clear_all returns true only if the round trip succeeded: when the
\* listing fails or the delete of the listed ids fails it returns false.
C6_ClearAllTrueOnlyOnSuccess ==
    (ret.op = "clear_all_memories" /\ ret.kind = "return" /\ ret.val = TRUE) =>
        /\ ext.list_ok
        /\ ext.delete_called => ext.delete_ok

\* C27: after clear_all returns true the store holds no chunks, whatever
\* number of chunks it held before the call (more than the default list limit
\* of 100 included): a following list_all returns empty collections.
C27_ClearAllEmptiesStore ==
    (ret.op = "clear_all_memories" /\ ret.kind = "return" /\ ret.val = TRUE) =>
        /\ chunks = <<>>
        /\ get_all_memories(chunks, DefaultListLimit, TRUE).ids = <<>>

\* A step in which the agent loop of an instance calls search_memory
CrewSearchStep == crew'.tools = crew.tools + 1

\* C28: when two MemoryAgent instances, each with its own MetricsLogger, are
\* made in one process and their turns interleave, every Retrieval event
\* caused by a tool call in an instance's turn is recorded in that instance's
\* own logger and in no other.
C28_RetrievalEventInOwnLogger ==
    [][CrewSearchStep =>
          \A a \in DOMAIN crew.loggers :
              Len(crew'.loggers[a].rag_metrics)
                  = Len(crew.loggers[a].rag_metrics) + (IF a = ext'.caller THEN 1 ELSE 0)]_vars

(***************************************************************************)
(* Claims on the chat turn                                                 *)
(***************************************************************************)

\* A step in which a chat call ends, by a return or by a raise
ChatFinishStep == turn.pc = "invoking" /\ turn'.pc = "idle"

\* The calls of a chat turn that returns, in order
SuccessfulTurn ==
    << "add_user_message", "get_messages", "invoke", "add_ai_message",
       "log_prompt_metrics", "log_agent_metrics", "log_system_metrics" >>

\* C23: in every successful chat turn the user message is appended (and the
\* buffer trimmed) first, the agent loop is invoked with the full buffer,
\* whose last element is that user message, the response is appended next,
\* and then exactly one Prompt, one Agent and one System event are logged, in
\* that order, before chat returns the response.
C23_TurnOrder ==
    [][(ChatFinishStep /\ ret'.kind = "return") =>
          /\ turn'.trace = SuccessfulTurn
          /\ turn.history_messages = messages
          /\ turn.history_messages = add_message(ext'.before, HumanMessage(turn.message),
                                                 max_messages)
          /\ turn.history_messages[Len(turn.history_messages)] = HumanMessage(turn.message)
          /\ messages' = add_message(messages, AIMessage(ret'.val), max_messages)
          /\ Len(logger'.prompt_metrics) = Len(logger.prompt_metrics) + 1
          /\ Len(logger'.agent_metrics) = Len(logger.agent_metrics) + 1
          /\ Len(logger'.system_metrics) = Len(logger.system_metrics) + 1]_vars

\* the second turn of a session has returned: the loop was handed the first
\* turn's two messages and the new user message
C23_Witness ==
    /\ ret.op = "chat"
    /\ ret.kind = "return"
    /\ turn.trace = SuccessfulTurn
    /\ Len(messages) = 4
    /\ Len(logger.system_metrics) = 2

\* C24: every chat call, whether it returns or raises and wherever in the
\* turn the failure occurs (agent loop, response decoding, tool-call
\* extraction or a metrics log write), adds exactly one Agent event and one
\* System event: total_tasks and the system total_requests each grow by one
\* per chat call.
C24_OneAgentOneSystemEventPerChat ==
    [][ChatFinishStep =>
          /\ Len(logger'.agent_metrics) = Len(logger.agent_metrics) + 1
          /\ Len(logger'.system_metrics) = Len(logger.system_metrics) + 1
          /\ logger'.aggregated_metrics.agents.total_tasks
                = logger.aggregated_metrics.agents.total_tasks + 1
          /\ logger'.aggregated_metrics.system.total_requests
                = logger.aggregated_metrics.system.total_requests + 1]_vars

\* C26: in every Prompt event logged by chat the refused flag and the
\* quality score agree on refusal: refused is true if and only if the logged
\* quality score is the forced value 0.2 (4 twentieths), the score of a
\* response in which the heuristic found a refusal keyword.
C26_RefusedIffForcedScore ==
    \A i \in 1..Len(logger.prompt_metrics) :
        logger.prompt_metrics[i].refused
            <=> logger.prompt_metrics[i].response_quality_score = 4

\* C7: a chat call whose agent-loop invocation fails re-raises that error to
\* the caller, after it has recorded one Agent event with task_completed
\* false and the error type and one System event with task_success false and
\* error true; it records no Prompt event.
C7_AgentFailureRecordedThenReraised ==
    [][(ChatFinishStep /\ ~ext'.agent_ok) =>
          /\ ret' = Raised("chat", ext'.error)
          /\ Len(logger'.agent_metrics) = Len(logger.agent_metrics) + 1
          /\ LET e == logger'.agent_metrics[Len(logger'.agent_metrics)]
             IN e.task_completed = FALSE /\ e.error_type = ext'.error
          /\ Len(logger'.system_metrics) = Len(logger.system_metrics) + 1
          /\ LET e == logger'.system_metrics[Len(logger'.system_metrics)]
             IN e.task_success = FALSE /\ e.error = TRUE
          /\ Len(logger'.prompt_metrics) = Len(logger.prompt_metrics)]_vars

\* C8: after a chat call that failed in the agent loop the short-term buffer
\* is the same as before the failed call, and no stream's event count is
\* lower than before.
C8_SessionIntactAfterFailure ==
    [][(ChatFinishStep /\ ~ext'.agent_ok) =>
          /\ messages' = ext'.before
          /\ \A s \in Streams :
                logger'.aggregated_metrics[s][CountKey[s]]
                   >= logger.aggregated_metrics[s][CountKey[s]]]_vars

(***************************************************************************)
(* Claims on the metrics logger                                            *)
(***************************************************************************)

\* The derived rates of each stream: averages and rates, every derived key
\* but the per-tool dict.
RateKeys == [s \in Streams |-> DerivedKeys[s] \ {"tool_success_rates"}]

IsZero(v) == IF v \in Int THEN v = 0 ELSE v[1] = 0

\* C9: with zero logged events in a stream, get_aggregated returns without
\* error and its snapshot holds the value 0 for every derived rate of that
\* stream.
C9_ZeroRatesPresent ==
    (ret.op = "get_aggregated_metrics") =>
        /\ ret.kind = "return"
        /\ \A s \in Streams :
              ret.val[s][CountKey[s]] = 0 =>
                  \A k \in RateKeys[s] :
                      /\ k \in DOMAIN ret.val[s]
                      /\ IsZero(ret.val[s][k])

RECURSIVE SumField(_, _)
\* The sum of field f over a list of raw events
SumField(events, f) ==
    IF events = <<>> THEN 0 ELSE Head(events)[f] + SumField(Tail(events), f)

RECURSIVE CountField(_, _)
\* The number of raw events whose boolean field f is true
CountField(events, f) ==
    IF events = <<>> THEN 0
    ELSE (IF Head(events)[f] THEN 1 ELSE 0) + CountField(Tail(events), f)

RECURSIVE SumTool(_, _, _)
\* The sum over the Agent events of the count their dict f holds for a tool
SumTool(events, f, tool) ==
    IF events = <<>> THEN 0
    ELSE Get(Head(events)[f], tool, 0) + SumTool(Tail(events), f, tool)

RECURSIVE ConfidenceScores(_)
\* The confidence scores of the Retrieval events, in the order reported
ConfidenceScores(events) ==
    IF events = <<>> THEN <<>>
    ELSE Head(events).retrieval_confidence_scores \o ConfidenceScores(Tail(events))

\* the fraction v is the quotient a / b
IsQuotient(v, a, b) == v[2] # 0 /\ b # 0 /\ v[1] * b = a * v[2]

\* The tools named in the tool_calls of some Agent event
ToolsCalled(events) == UNION { DOMAIN events[i].tool_calls : i \in 1..Len(events) }

\* C13: after a non-empty sequence of events every derived ratio of the
\* snapshot equals the quotient of the totals of the raw events: the average
\* response length is the sum of the lengths over the number of Prompt
\* events, the average confidence the sum of the reported confidence scores
\* over their number, and for every tool called tool_success_rates[tool] is
\* its total successes over its total calls, 0 when it has no calls.
C13_RatiosAreQuotients ==
    (ret.op = "get_aggregated_metrics") =>
        LET P == logger.prompt_metrics
            A == logger.agent_metrics
            Y == logger.system_metrics
            R == logger.rag_metrics
            v == ret.val
        IN /\ P # <<>> =>
                /\ IsQuotient(v.prompts["average_response_length"],
                              SumField(P, "response_length"), Len(P))
                /\ IsQuotient(v.prompts["refusal_rate"], CountField(P, "refused"), Len(P))
                /\ IsQuotient(v.prompts["format_compliance_rate"],
                              CountField(P, "format_compliant"), Len(P))
                /\ IsQuotient(v.prompts["average_quality_score"],
                              SumField(P, "response_quality_score"), Len(P))
           /\ R # <<>> =>
                /\ IsQuotient(v.rag["average_chunks_retrieved"],
                              SumField(R, "num_chunks_retrieved"), Len(R))
                /\ IsQuotient(v.rag["average_retrieval_latency"],
                              SumField(R, "retrieval_latency"), Len(R))
                /\ IsQuotient(v.rag["average_source_diversity"],
                              SumField(R, "source_diversity"), Len(R))
                /\ ConfidenceScores(R) # <<>> =>
                      IsQuotient(v.rag["average_confidence_score"],
                                 SumSeq(ConfidenceScores(R)), Len(ConfidenceScores(R)))
           /\ A # <<>> =>
                /\ IsQuotient(v.agents["task_completion_rate"],
                              CountField(A, "task_completed"), Len(A))
                /\ IsQuotient(v.agents["average_steps_to_completion"],
                              SumField(A, "steps_to_completion"), Len(A))
                /\ IsQuotient(v.agents["average_cost_per_task"],
                              SumField(A, "cost_per_task"), Len(A))
                /\ DOMAIN v.agents["tool_success_rates"] = ToolsCalled(A)
                /\ \A tool \in ToolsCalled(A) :
                      LET c == SumTool(A, "tool_calls", tool)
                          k == SumTool(A, "tool_successes", tool)
                          rate == v.agents["tool_success_rates"][tool]
                      IN IF c > 0 THEN IsQuotient(rate, k, c) ELSE rate = 0
           /\ Y # <<>> =>
                /\ IsQuotient(v.system["task_success_rate"],
                              CountField(Y, "task_success"), Len(Y))
                /\ IsQuotient(v.system["average_latency"], SumField(Y, "latency"), Len(Y))
                /\ IsQuotient(v.system["average_cost_per_request"],
                              SumField(Y, "cost_per_request"), Len(Y))
                /\ IsQuotient(v.system["error_rate"], CountField(Y, "error"), Len(Y))

\* search_memory called 5 times over two Agent events and succeeded 3 times:
\* the snapshot's rate is 3/5; a tool listed with no calls has rate 0.
C13_Witness ==
    /\ ret.op = "get_aggregated_metrics"
    /\ Len(logger.agent_metrics) = 2
    /\ SumTool(logger.agent_metrics, "tool_calls", "search_memory") = 5
    /\ ret.val.agents["tool_success_rates"]["search_memory"] = Frac(3, 5)
    /\ ret.val.agents["tool_success_rates"]["save_to_memory"] = 0

\* The in-memory list of raw events of each stream.
RawEvents(L) ==
    [ prompts |-> L.prompt_metrics, rag |-> L.rag_metrics,
      agents |-> L.agent_metrics, system |-> L.system_metrics ]

\* C11: for every stream and every call of the logger, calls whose append to
\* the log file fails included, the stream's aggregate is updated
\* transactionally with the event: the call adds as much to the stream's
\* event count as it appends records to the stream's log file and raw events
\* to the list held in memory, so that the count equals the number of
\* records the logger appended and the number of raw events it holds.
C11_AggregateMatchesLog ==
    [][\A s \in Streams :
          /\ logger'.aggregated_metrics[s][CountKey[s]]
                - logger.aggregated_metrics[s][CountKey[s]]
             = Len(logger'.files[s]) - Len(logger.files[s])
          /\ logger'.aggregated_metrics[s][CountKey[s]]
             = Len(RawEvents(logger')[s])]_vars

\* C10: a call of get_aggregated leaves the running accumulator exactly as it
\* was.
C10_GetLeavesAccumulator ==
    [][(ret'.op = "get_aggregated_metrics" /\ calls' = calls + 1)
          => logger'.aggregated_metrics = logger.aggregated_metrics]_vars

====
